---- MODULE Spec2Model ----
(***************************************************************************)
(* Model of src/src/async_utils.rs: the single-task blocking executor      *)
(* (block_on / run_executor), its reentrancy flag ENTERED, the per-thread  *)
(* ThreadNotify (flag `unparked` + the thread's park token) and the Waker  *)
(* built over Arc<ThreadNotify> through the raw vtable.                    *)
(*                                                                         *)
(* Granularity: every access to shared state (the two atomic swaps, the    *)
(* unpark, park, the Arc count) is a step of its own; code that touches    *)
(* only the calling thread's locals is folded into the step before it.     *)
(* ExitSpec adds the end of a thread, which destroys its thread-locals.    *)
(* WakerSpec lets clones of the Waker be cloned again, side by side.       *)
(*                                                                         *)
(* The library functions that run without the executor are modelled as     *)
(* operators, each applied by the actions of a specification of its own to *)
(* inputs drawn from bounded sets (variables `input` and `output`):        *)
(*   ErrSpec     Drop for TracebackError (src/utils/src/error_types.rs)    *)
(*   EqSpec      PartialEq for TracebackError                              *)
(*   ChainSpec   with_parent, and the drop of the chain it builds          *)
(*   CsvSpec     csv_to_json, json_to_csv (src/src/csv2json.rs)            *)
(*   SchemaSpec  generate_schema (src/src/json.rs)                         *)
(*   GeoSpec     coords_to_vec (src/src/geojson.rs)                        *)
(***************************************************************************)
EXTENDS Naturals, Sequences, FiniteSets

\* Executor threads (threads that call block_on). Threads that only use
\* Wakers are anonymous: their operations in flight are counted per target.
Threads == {"t1", "t2"}

\* The threads that call block_on under Spec. The state space of two
\* executors is the product of two of these, so Spec follows one executor
\* against any number of threads using its Wakers.
Callers == {"t1"}

\* The values a task can return. block_on never looks into the value, so
\* two are enough to tell the right one from a wrong one.
Values == {"a", "b"}

\* ---- bounds of the model ----
MaxPending == 2   \* a task returns Pending at most this many times
MaxClones  == 1   \* owned Waker clones outstanding, all Notifiers together
MaxOps     == 2   \* wake / wake_by_ref calls in flight, all Notifiers together
MaxCount   == 2   \* saturation of the per-window wake counters

VARIABLES
    stack,        \* per thread: run_executor frames in progress (innermost last)
    outcome,      \* per thread: how the last finished block_on call ended
    ENTERED,      \* per thread: thread_local ENTERED
    unparked,     \* per thread: CURRENT_THREAD_NOTIFY.unparked
    token,        \* per thread: the park token of ThreadNotify.thread
    refcount,     \* per thread: strong count of the Arc<ThreadNotify> (0: not yet built)
    clones,       \* per thread: owned Waker clones of that Notifier, at rest
    armed,        \* per thread: clones moved to a background thread that will call wake
    uw,           \* per thread: wake(self) calls between their swap and their unpark
    ur,           \* per thread: wake_by_ref calls between their swap and their unpark
    rel,          \* per thread: wake(self) calls past wake_by_ref, Arc not yet dropped
    flips,        \* per thread: false->true transitions of unparked so far
    wakesSince,   \* per thread: request_wake swaps since the last consume (saturating)
    unparksSince, \* per thread: of those, the ones that went on to unpark (saturating)
    unparks,      \* per thread: thread.unpark() calls made by wake_by_ref so far
    unusedDrop,   \* per thread: a clone of its Waker has been dropped, and no wake or
                  \* wake_by_ref has been called on its Notifier so far
    exited,       \* per thread: the thread has ended (its thread-locals are destroyed)
    input,        \* the argument of the library function under study (no executor)
    output        \* what that function has produced so far

vars == <<stack, outcome, ENTERED, unparked, token, refcount, clones, armed,
          uw, ur, rel, flips, wakesSince, unparksSince, unparks, unusedDrop,
          exited, input, output>>

notifyVars == <<unparked, flips, wakesSince, unparksSince, unusedDrop>>
arcVars    == <<refcount, clones, armed>>
opVars     == <<uw, ur, rel>>
callVars   == <<stack, outcome, ENTERED>>

\* The executor's variables, and those of the library functions (csv2json,
\* json, geojson, error_types), which run without the executor.
execVars == <<callVars, notifyVars, token, arcVars, opVars, unparks, exited>>
ioVars   == <<input, output>>

\* input / output while no library function is under study.
NoValue == [kind |-> "none"]

\* ---- the task given to block_on: an opaque future, described by what its
\* polls return. It returns Pending `n` times, then Ready(val) or panics;
\* `arms`: at each Pending it has handed a clone of the Waker to a
\* background thread that will call wake on it.
Scripts ==
    { s \in [n : 0..MaxPending, val : Values, panics : BOOLEAN, arms : BOOLEAN] :
        /\ (s.panics => s.val = "a")
        /\ (s.n = 0 => ~s.arms) }

\* A run_executor frame: where its loop stands (pc), what is left of the
\* task's script, and what the call has done so far.
\*   pc: "polling" (inside f), "swap" (about to swap(false)), "park" (in thread::park)
Frame(pc, s) ==
    [pc |-> pc, n |-> s.n, left |-> s.n, val |-> s.val, panics |-> s.panics,
     arms |-> s.arms,
     polls    |-> IF pc = "polling" THEN 1 ELSE 0,  \* calls of f
     pendings |-> 0,       \* Pending results
     woken    |-> 0,       \* swap(false) calls that returned true
     parked   |-> FALSE]   \* thread::park() has been called

NoFrame == Frame("none", [n |-> 0, val |-> "none", panics |-> FALSE, arms |-> FALSE])

\* How a block_on call ended, with the frame as it stood at the end.
Outcome(kind, val, f) == [kind |-> kind, val |-> val, call |-> f]
NoOutcome == Outcome("none", "none", NoFrame)

Sat(x) == IF x < MaxCount THEN x + 1 ELSE x

Top(t)    == stack[t][Len(stack[t])]
InCall(t) == stack[t] # <<>>
PC(t)     == IF InCall(t) THEN Top(t).pc ELSE "idle"

SetTop(t, f) == [stack EXCEPT ![t] = [@ EXCEPT ![Len(@)] = f]]
Pop(t)       == [stack EXCEPT ![t] = SubSeq(@, 1, Len(@) - 1)]

SumOver(f) == f["t1"] + f["t2"]

\* ---- pure pieces of the code ----

\* Mutant of enter: the flag is not looked at.
enter_NoCheck(e) == [ok |-> TRUE, flag |-> TRUE]

\* Mutant of enter: the Err branch clears the flag.
enter_ClearsOnErr(e) == IF e THEN [ok |-> FALSE, flag |-> FALSE] ELSE [ok |-> TRUE, flag |-> TRUE]

\* enter(): Err if the thread-local flag is set, else set it and hand out a guard.
enter(e) == IF e THEN [ok |-> FALSE, flag |-> e] ELSE [ok |-> TRUE, flag |-> TRUE]

\* The guard `Enter` going out of scope. The struct has no Drop impl, so the
\* flag is left as it is.
DropEnter(e) == e

\* Mutant of SwapTrue: the flag is read and left as it is.
SwapTrue_Load(u) == [prev |-> u, flag |-> u]

\* unparked.swap(true, Release) in wake_by_ref.
SwapTrue(u) == [prev |-> u, flag |-> TRUE]

\* Mutants of NeedsUnpark: unpark on every call; never unpark.
NeedsUnpark_Always(prev) == TRUE
NeedsUnpark_Never(prev)  == FALSE

\* `if !unparked { thread.unpark() }`
NeedsUnpark(prev) == ~prev

\* Mutants of SwapFalse: swap(true) written for swap(false); a load that
\* leaves the flag as it is.
SwapFalse_SetsTrue(u) == [prev |-> u, flag |-> TRUE]
SwapFalse_Load(u)     == [prev |-> u, flag |-> u]

\* unparked.swap(false, Acquire) in run_executor.
SwapFalse(u) == [prev |-> u, flag |-> FALSE]

\* CURRENT_THREAD_NOTIFY.with: the thread-local Arc is built on first use and
\* kept for the life of the thread.
NotifyCount(c) == IF c = 0 THEN 1 ELSE c

\* The Notifier run_executor uses on thread t: CURRENT_THREAD_NOTIFY is a
\* thread_local, so it is the one of the calling thread (Notifiers are named
\* by their thread).
NotifierOf(t) == t

\* Mutant of increase_refcount: the clone takes no reference of its own.
increase_refcount_None(c) == c

\* increase_refcount / drop of an Arc
increase_refcount(c) == c + 1
DropArc(c)           == c - 1

\* The value run_executor returns from `if let Poll::Ready(t) = f(&mut cx)`.
ReadyValue(f) == f.val

\* ---- initial state: no thread has called block_on ----
ExecInit ==
    /\ stack        = [t \in Threads |-> <<>>]
    /\ outcome      = [t \in Threads |-> NoOutcome]
    /\ ENTERED      = [t \in Threads |-> FALSE]
    /\ unparked     = [t \in Threads |-> FALSE]
    /\ token        = [t \in Threads |-> FALSE]
    /\ refcount     = [t \in Threads |-> 0]
    /\ clones       = [t \in Threads |-> 0]
    /\ armed        = [t \in Threads |-> 0]
    /\ uw           = [t \in Threads |-> 0]
    /\ ur           = [t \in Threads |-> 0]
    /\ rel          = [t \in Threads |-> 0]
    /\ flips        = [t \in Threads |-> 0]
    /\ wakesSince   = [t \in Threads |-> 0]
    /\ unparksSince = [t \in Threads |-> 0]
    /\ unparks      = [t \in Threads |-> 0]
    /\ unusedDrop   = [t \in Threads |-> FALSE]
    /\ exited       = [t \in Threads |-> FALSE]

Init ==
    /\ ExecInit
    /\ input = NoValue
    /\ output = NoValue

\* ---- block_on / run_executor, on thread t ----

\* Mutant of block_on: the loop of run_executor looks at the flag (and parks)
\* before its first poll.
block_on_ParksFirst(t, s) ==
    /\ PC(t) \in {"idle", "polling"}
    /\ ~exited[t]
    /\ LET r == enter(ENTERED[t]) IN
         /\ ENTERED' = [ENTERED EXCEPT ![t] = r.flag]
         /\ IF r.ok
              THEN /\ stack' = [stack EXCEPT ![t] = Append(@, Frame("swap", s))]
                   /\ refcount' = [refcount EXCEPT ![t] = NotifyCount(@)]
                   /\ outcome' = [outcome EXCEPT ![t] = NoOutcome]
              ELSE /\ outcome' = [outcome EXCEPT ![t] = Outcome("rejected", "none", NoFrame)]
                   /\ UNCHANGED <<stack, refcount>>
    /\ UNCHANGED <<notifyVars, token, clones, armed, opVars, unparks>>
    /\ UNCHANGED <<exited, ioVars>>

\* block_on(f) called on t: from outside any call, or from inside the task
\* being polled (nested). enter() decides; on Ok the Notifier of the thread
\* is taken, the borrowed Waker built and the first poll of f begins.
block_on(t, s) ==
    /\ PC(t) \in {"idle", "polling"}
    /\ ~exited[t]
    /\ LET r == enter(ENTERED[t]) IN
         /\ ENTERED' = [ENTERED EXCEPT ![t] = r.flag]
         /\ IF r.ok
              THEN /\ stack' = [stack EXCEPT ![t] = Append(@, Frame("polling", s))]
                   /\ refcount' = [refcount EXCEPT ![t] = NotifyCount(@)]
                   /\ outcome' = [outcome EXCEPT ![t] = NoOutcome]
              ELSE /\ outcome' = [outcome EXCEPT ![t] = Outcome("rejected", "none", NoFrame)]
                   /\ UNCHANGED <<stack, refcount>>
    /\ UNCHANGED <<notifyVars, token, clones, armed, opVars, unparks>>
    /\ UNCHANGED <<exited, ioVars>>

\* Mutant of PollReady: the borrowed Waker of the context is dropped as an
\* owned one when the call ends (waker_ref without ManuallyDrop).
PollReady_DropsWaker(t) ==
    /\ PC(t) = "polling"
    /\ Top(t).left = 0
    /\ ~Top(t).panics
    /\ outcome' = [outcome EXCEPT ![t] = Outcome("returned", ReadyValue(Top(t)), Top(t))]
    /\ stack' = Pop(t)
    /\ ENTERED' = [ENTERED EXCEPT ![t] = DropEnter(@)]
    /\ refcount' = [refcount EXCEPT ![t] = DropArc(@)]
    /\ UNCHANGED <<notifyVars, token, clones, armed, opVars, unparks>>
    /\ UNCHANGED <<exited, ioVars>>

\* The poll in progress returns Ready(val): run_executor returns it.
PollReady(t) ==
    /\ PC(t) = "polling"
    /\ Top(t).left = 0
    /\ ~Top(t).panics
    /\ outcome' = [outcome EXCEPT ![t] = Outcome("returned", ReadyValue(Top(t)), Top(t))]
    /\ stack' = Pop(t)
    /\ ENTERED' = [ENTERED EXCEPT ![t] = DropEnter(@)]
    /\ UNCHANGED <<notifyVars, token, arcVars, opVars, unparks>>
    /\ UNCHANGED <<exited, ioVars>>

\* The poll in progress returns Pending; the loop goes on to its swap. A task
\* that arms a wake has cloned the Waker during the poll and moved the clone
\* to a background thread.
PollPending(t) ==
    /\ PC(t) = "polling"
    /\ Top(t).left > 0
    /\ stack' = SetTop(t, [Top(t) EXCEPT !.pc = "swap", !.left = @ - 1,
                                          !.pendings = @ + 1])
    /\ IF Top(t).arms
         THEN /\ refcount' = [refcount EXCEPT ![t] = increase_refcount(@)]
              /\ armed' = [armed EXCEPT ![t] = @ + 1]
         ELSE UNCHANGED <<refcount, armed>>
    /\ UNCHANGED <<outcome, ENTERED, notifyVars, token, clones, opVars, unparks>>
    /\ UNCHANGED <<exited, ioVars>>

\* Mutant of PollPanic: run_executor catches the panic of the task and
\* returns a value in its place.
PollPanic_Caught(t) ==
    /\ PC(t) = "polling"
    /\ Top(t).left = 0
    /\ Top(t).panics
    /\ outcome' = [outcome EXCEPT ![t] = Outcome("returned", ReadyValue(Top(t)), Top(t))]
    /\ stack' = Pop(t)
    /\ ENTERED' = [ENTERED EXCEPT ![t] = DropEnter(@)]
    /\ UNCHANGED <<notifyVars, token, arcVars, opVars, unparks>>
    /\ UNCHANGED <<exited, ioVars>>

\* The poll in progress panics: the panic unwinds through run_executor and
\* block_on, dropping the guard on its way.
PollPanic(t) ==
    /\ PC(t) = "polling"
    /\ Top(t).left = 0
    /\ Top(t).panics
    /\ outcome' = [outcome EXCEPT ![t] = Outcome("panicked", "none", Top(t))]
    /\ stack' = Pop(t)
    /\ ENTERED' = [ENTERED EXCEPT ![t] = DropEnter(@)]
    /\ UNCHANGED <<notifyVars, token, arcVars, opVars, unparks>>
    /\ UNCHANGED <<exited, ioVars>>

\* Mutant of ConsumeWake: the loop polls again whatever the swap returned.
ConsumeWake_Spin(t) ==
    /\ PC(t) = "swap"
    /\ LET r == SwapFalse(unparked[t]) IN
         /\ unparked' = [unparked EXCEPT ![t] = r.flag]
         /\ stack' = SetTop(t, [Top(t) EXCEPT !.pc = "polling", !.polls = @ + 1,
                                              !.woken = IF r.prev THEN @ + 1 ELSE @])
    /\ wakesSince' = [wakesSince EXCEPT ![t] = 0]
    /\ unparksSince' = [unparksSince EXCEPT ![t] = 0]
    /\ UNCHANGED <<outcome, ENTERED, flips, unusedDrop, token, arcVars, opVars, unparks>>
    /\ UNCHANGED <<exited, ioVars>>

\* Mutant of ConsumeWake: once park has returned, the loop polls again
\* whatever the swap returned.
ConsumeWake_RepollsAfterPark(t) ==
    /\ PC(t) = "swap"
    /\ LET r == SwapFalse(unparked[t]) IN
         /\ unparked' = [unparked EXCEPT ![t] = r.flag]
         /\ stack' = SetTop(t, IF r.prev \/ Top(t).parked
                                 THEN [Top(t) EXCEPT !.pc = "polling", !.polls = @ + 1,
                                                     !.woken = IF r.prev THEN @ + 1 ELSE @]
                                 ELSE [Top(t) EXCEPT !.pc = "park", !.parked = TRUE])
    /\ wakesSince' = [wakesSince EXCEPT ![t] = 0]
    /\ unparksSince' = [unparksSince EXCEPT ![t] = 0]
    /\ UNCHANGED <<outcome, ENTERED, flips, unusedDrop, token, arcVars, opVars, unparks>>
    /\ UNCHANGED <<exited, ioVars>>

\* `while !unparked.swap(false, Acquire)`: true -> back to the top of the
\* loop and poll again; false -> call thread::park().
ConsumeWake(t) ==
    /\ PC(t) = "swap"
    /\ LET r == SwapFalse(unparked[t]) IN
         /\ unparked' = [unparked EXCEPT ![t] = r.flag]
         /\ stack' = SetTop(t, IF r.prev
                                 THEN [Top(t) EXCEPT !.pc = "polling", !.polls = @ + 1,
                                                     !.woken = @ + 1]
                                 ELSE [Top(t) EXCEPT !.pc = "park", !.parked = TRUE])
    /\ wakesSince' = [wakesSince EXCEPT ![t] = 0]
    /\ unparksSince' = [unparksSince EXCEPT ![t] = 0]
    /\ UNCHANGED <<outcome, ENTERED, flips, unusedDrop, token, arcVars, opVars, unparks>>
    /\ UNCHANGED <<exited, ioVars>>

\* thread::park() returns because the token is available, and takes it.
Park(t) ==
    /\ PC(t) = "park"
    /\ token[t]
    /\ token' = [token EXCEPT ![t] = FALSE]
    /\ stack' = SetTop(t, [Top(t) EXCEPT !.pc = "swap"])
    /\ UNCHANGED <<outcome, ENTERED, notifyVars, arcVars, opVars, unparks>>
    /\ UNCHANGED <<exited, ioVars>>

\* Mutant of ParkSpurious: `if` written for `while`, so a return of park
\* goes back to the poll without a second look at the flag.
ParkSpurious_Repolls(t) ==
    /\ PC(t) = "park"
    /\ ~token[t]
    /\ stack' = SetTop(t, [Top(t) EXCEPT !.pc = "polling", !.polls = @ + 1])
    /\ UNCHANGED <<outcome, ENTERED, notifyVars, token, arcVars, opVars, unparks>>
    /\ UNCHANGED <<exited, ioVars>>

\* Mutant of ParkSpurious: a return of park with no token is taken for a
\* timeout, and run_executor gives up and returns.
ParkSpurious_GivesUp(t) ==
    /\ PC(t) = "park"
    /\ ~token[t]
    /\ outcome' = [outcome EXCEPT ![t] = Outcome("returned", ReadyValue(Top(t)), Top(t))]
    /\ stack' = Pop(t)
    /\ UNCHANGED <<ENTERED, notifyVars, token, arcVars, opVars, unparks>>
    /\ UNCHANGED <<exited, ioVars>>

\* thread::park() returns with no token (a spurious wakeup).
ParkSpurious(t) ==
    /\ PC(t) = "park"
    /\ ~token[t]
    /\ stack' = SetTop(t, [Top(t) EXCEPT !.pc = "swap"])
    /\ UNCHANGED <<outcome, ENTERED, notifyVars, token, arcVars, opVars, unparks>>
    /\ UNCHANGED <<exited, ioVars>>

\* ---- the Waker: clone / wake / wake_by_ref / drop over Arc<ThreadNotify> ----
\* `n` names the Notifier (by its owning thread); the caller may be any thread.

\* Mutant of RequestWake: the unpark is issued first, the flag is still as it
\* was when the owning thread is made runnable.
RequestWake_UnparkFirst(n) ==
    /\ wakesSince' = [wakesSince EXCEPT ![n] = Sat(@)]
    /\ unparksSince' = [unparksSince EXCEPT ![n] = IF NeedsUnpark(unparked[n]) THEN Sat(@) ELSE @]
    /\ unusedDrop' = [unusedDrop EXCEPT ![n] = FALSE]
    /\ UNCHANGED <<unparked, flips>>

\* ThreadNotify::wake_by_ref up to its swap: the flag and the bookkeeping of
\* the current window (the calls since the owner's last swap(false)).
RequestWake(n) ==
    LET r == SwapTrue(unparked[n]) IN
    /\ unparked' = [unparked EXCEPT ![n] = r.flag]
    /\ flips' = [flips EXCEPT ![n] = IF ~r.prev /\ r.flag THEN @ + 1 ELSE @]
    /\ wakesSince' = [wakesSince EXCEPT ![n] = Sat(@)]
    /\ unparksSince' = [unparksSince EXCEPT ![n] = IF NeedsUnpark(r.prev) THEN Sat(@) ELSE @]
    /\ unusedDrop' = [unusedDrop EXCEPT ![n] = FALSE]

\* A Waker of Notifier n can be reached: an owned clone at rest, or the
\* borrowed Waker of the poll context while n's task is being polled.
Reachable(n) == clones[n] > 0 \/ PC(n) = "polling"

\* clone_arc_raw: one more strong reference, one more owned Waker, made
\* through the borrowed Waker of the poll or through an owned clone, while
\* fewer than `max` owned clones are outstanding.
clone_arc_raw_upto(n, max) ==
    /\ Reachable(n)
    /\ SumOver(clones) < max
    /\ refcount' = [refcount EXCEPT ![n] = increase_refcount(@)]
    /\ clones' = [clones EXCEPT ![n] = @ + 1]
    /\ UNCHANGED <<callVars, notifyVars, token, armed, opVars, unparks>>
    /\ UNCHANGED <<exited, ioVars>>

clone_arc_raw(n) == clone_arc_raw_upto(n, MaxClones)

\* Mutant of drop_arc_raw: dropping a Waker wakes the thread, as a wake does.
drop_arc_raw_Wakes(n) ==
    /\ clones[n] > (IF ur[n] > 0 THEN 1 ELSE 0)
    /\ clones' = [clones EXCEPT ![n] = @ - 1]
    /\ refcount' = [refcount EXCEPT ![n] = DropArc(@)]
    /\ RequestWake(n)
    /\ UNCHANGED <<callVars, token, armed, opVars, unparks>>
    /\ UNCHANGED <<exited, ioVars>>

\* drop_arc_raw: an owned Waker is dropped (one that no wake_by_ref in
\* flight is borrowing).
drop_arc_raw(n) ==
    /\ clones[n] > (IF ur[n] > 0 THEN 1 ELSE 0)
    /\ clones' = [clones EXCEPT ![n] = @ - 1]
    /\ refcount' = [refcount EXCEPT ![n] = DropArc(@)]
    /\ unusedDrop' = [unusedDrop EXCEPT ![n] = (flips[n] = 0)]
    /\ UNCHANGED <<callVars, unparked, flips, wakesSince, unparksSince, token, armed,
                   opVars, unparks>>
    /\ UNCHANGED <<exited, ioVars>>

\* wake_arc_raw on an owned clone, up to the swap inside wake_by_ref. The
\* Arc taken out of the Waker is held until the call ends.
wake_arc_raw(n) ==
    /\ clones[n] > (IF ur[n] > 0 THEN 1 ELSE 0)
    /\ SumOver(uw) + SumOver(ur) + SumOver(rel) < MaxOps
    /\ clones' = [clones EXCEPT ![n] = @ - 1]
    /\ RequestWake(n)
    /\ IF NeedsUnpark(unparked[n])
         THEN uw' = [uw EXCEPT ![n] = @ + 1] /\ UNCHANGED rel
         ELSE rel' = [rel EXCEPT ![n] = @ + 1] /\ UNCHANGED uw
    /\ UNCHANGED <<callVars, token, refcount, armed, ur, unparks>>
    /\ UNCHANGED <<exited, ioVars>>

\* Mutant of WakeArmed: the waking thread, finding the owner between two
\* polls, polls the task itself.
WakeArmed_Polls(n) ==
    /\ armed[n] > 0
    /\ armed' = [armed EXCEPT ![n] = @ - 1]
    /\ RequestWake(n)
    /\ IF NeedsUnpark(unparked[n])
         THEN uw' = [uw EXCEPT ![n] = @ + 1] /\ UNCHANGED rel
         ELSE rel' = [rel EXCEPT ![n] = @ + 1] /\ UNCHANGED uw
    /\ stack' = IF PC(n) \in {"swap", "park"}
                  THEN SetTop(n, [Top(n) EXCEPT !.pc = "polling", !.polls = @ + 1])
                  ELSE stack
    /\ UNCHANGED <<outcome, ENTERED, token, refcount, clones, ur, unparks>>
    /\ UNCHANGED <<exited, ioVars>>

\* The same call made by the background thread a task armed.
WakeArmed(n) ==
    /\ armed[n] > 0
    /\ armed' = [armed EXCEPT ![n] = @ - 1]
    /\ RequestWake(n)
    /\ IF NeedsUnpark(unparked[n])
         THEN uw' = [uw EXCEPT ![n] = @ + 1] /\ UNCHANGED rel
         ELSE rel' = [rel EXCEPT ![n] = @ + 1] /\ UNCHANGED uw
    /\ UNCHANGED <<callVars, token, refcount, clones, ur, unparks>>
    /\ UNCHANGED <<exited, ioVars>>

\* Mutant of wake_by_ref_arc_raw: the call waits until the owning thread is
\* in park before it sets the flag.
wake_by_ref_arc_raw_Waits(n) ==
    /\ PC(n) = "park"
    /\ clones[n] > 0
    /\ SumOver(uw) + SumOver(ur) + SumOver(rel) < MaxOps
    /\ RequestWake(n)
    /\ IF NeedsUnpark(unparked[n])
         THEN ur' = [ur EXCEPT ![n] = @ + 1]
         ELSE UNCHANGED ur
    /\ UNCHANGED <<callVars, token, arcVars, uw, rel, unparks>>
    /\ UNCHANGED <<exited, ioVars>>

\* wake_by_ref_arc_raw through an owned clone, up to the swap.
wake_by_ref_arc_raw(n) ==
    /\ clones[n] > 0
    /\ SumOver(uw) + SumOver(ur) + SumOver(rel) < MaxOps
    /\ RequestWake(n)
    /\ IF NeedsUnpark(unparked[n])
         THEN ur' = [ur EXCEPT ![n] = @ + 1]
         ELSE UNCHANGED ur
    /\ UNCHANGED <<callVars, token, arcVars, uw, rel, unparks>>
    /\ UNCHANGED <<exited, ioVars>>

\* Mutant of SelfWake: one Notifier for the whole process, so the wake sets
\* the flag of every thread and unparks every thread.
SelfWake_Broadcast(n) ==
    /\ PC(n) = "polling"
    /\ unparked' = [m \in Threads |-> TRUE]
    /\ flips' = [m \in Threads |-> IF unparked[m] THEN flips[m] ELSE flips[m] + 1]
    /\ wakesSince' = [wakesSince EXCEPT ![n] = Sat(@)]
    /\ unparksSince' = [unparksSince EXCEPT ![n] = IF NeedsUnpark(unparked[n]) THEN Sat(@) ELSE @]
    /\ unusedDrop' = [unusedDrop EXCEPT ![n] = FALSE]
    /\ token' = IF NeedsUnpark(unparked[n]) THEN [m \in Threads |-> TRUE] ELSE token
    /\ unparks' = [unparks EXCEPT ![n] = IF NeedsUnpark(unparked[n]) THEN @ + 1 ELSE @]
    /\ UNCHANGED <<callVars, arcVars, opVars>>
    /\ UNCHANGED <<exited, ioVars>>

\* The task wakes itself during its poll through the borrowed Waker of the
\* context: swap and unpark, both on the owning thread.
SelfWake(n) ==
    /\ PC(n) = "polling"
    /\ RequestWake(n)
    /\ token' = [token EXCEPT ![n] = IF NeedsUnpark(unparked[n]) THEN TRUE ELSE @]
    /\ unparks' = [unparks EXCEPT ![n] = IF NeedsUnpark(unparked[n]) THEN @ + 1 ELSE @]
    /\ UNCHANGED <<callVars, arcVars, opVars>>
    /\ UNCHANGED <<exited, ioVars>>

\* Mutant of UnparkWake: the waking thread takes the flag back once it has
\* unparked the owner.
UnparkWake_Resets(n) ==
    /\ uw[n] > 0
    /\ token' = [token EXCEPT ![n] = TRUE]
    /\ uw' = [uw EXCEPT ![n] = @ - 1]
    /\ rel' = [rel EXCEPT ![n] = @ + 1]
    /\ unparks' = [unparks EXCEPT ![n] = @ + 1]
    /\ unparked' = [unparked EXCEPT ![n] = FALSE]
    /\ UNCHANGED <<callVars, flips, wakesSince, unparksSince, unusedDrop, arcVars, ur>>
    /\ UNCHANGED <<exited, ioVars>>

\* arc_self.thread.unpark() of a wake(self) whose swap returned false.
UnparkWake(n) ==
    /\ uw[n] > 0
    /\ token' = [token EXCEPT ![n] = TRUE]
    /\ uw' = [uw EXCEPT ![n] = @ - 1]
    /\ rel' = [rel EXCEPT ![n] = @ + 1]
    /\ unparks' = [unparks EXCEPT ![n] = @ + 1]
    /\ UNCHANGED <<callVars, notifyVars, arcVars, ur>>
    /\ UNCHANGED <<exited, ioVars>>

\* arc_self.thread.unpark() of a wake_by_ref whose swap returned false.
UnparkRef(n) ==
    /\ ur[n] > 0
    /\ token' = [token EXCEPT ![n] = TRUE]
    /\ ur' = [ur EXCEPT ![n] = @ - 1]
    /\ unparks' = [unparks EXCEPT ![n] = @ + 1]
    /\ UNCHANGED <<callVars, notifyVars, arcVars, uw, rel>>
    /\ UNCHANGED <<exited, ioVars>>

\* Mutant of ReleaseWake: wake(self) ends without dropping the Arc it took.
ReleaseWake_Leaks(n) ==
    /\ rel[n] > 0
    /\ rel' = [rel EXCEPT ![n] = @ - 1]
    /\ UNCHANGED <<callVars, notifyVars, token, arcVars, uw, ur, unparks>>
    /\ UNCHANGED <<exited, ioVars>>

\* End of ArcWake::wake: the Arc taken by wake_arc_raw is dropped.
ReleaseWake(n) ==
    /\ rel[n] > 0
    /\ rel' = [rel EXCEPT ![n] = @ - 1]
    /\ refcount' = [refcount EXCEPT ![n] = DropArc(@)]
    /\ UNCHANGED <<callVars, notifyVars, token, clones, armed, uw, ur, unparks>>
    /\ UNCHANGED <<exited, ioVars>>

\* ---- specifications ----

ExecStep(t) ==
    \/ PollReady(t)
    \/ PollPending(t)
    \/ PollPanic(t)
    \/ ConsumeWake(t)
    \/ Park(t)

Next ==
    \/ \E t \in Callers, s \in Scripts : block_on(t, s)
    \/ \E t \in Threads : PollReady(t)
    \/ \E t \in Threads : PollPending(t)
    \/ \E t \in Threads : PollPanic(t)
    \/ \E t \in Threads : ConsumeWake(t)
    \/ \E t \in Threads : Park(t)
    \/ \E t \in Threads : ParkSpurious(t)
    \/ \E n \in Threads : clone_arc_raw(n)
    \/ \E n \in Threads : drop_arc_raw(n)
    \/ \E n \in Threads : wake_arc_raw(n)
    \/ \E n \in Threads : WakeArmed(n)
    \/ \E n \in Threads : wake_by_ref_arc_raw(n)
    \/ \E n \in Threads : SelfWake(n)
    \/ \E n \in Threads : UnparkWake(n)
    \/ \E n \in Threads : UnparkRef(n)
    \/ \E n \in Threads : ReleaseWake(n)

Spec == Init /\ [][Next]_vars

\* The scheduling the code relies on: a thread that can take its next step
\* takes it (the poll returns, the loop goes on, park returns once the token
\* is there), and a wake call that has begun, or that a background thread
\* was armed to make, is made and runs to its end. Spurious wakeups, new
\* calls and the use of clones at rest are not forced.
Fairness ==
    /\ \A t \in Callers : WF_vars(ExecStep(t))
    /\ \A n \in Callers : WF_vars(UnparkWake(n))
    /\ \A n \in Callers : WF_vars(UnparkRef(n))
    /\ \A n \in Callers : WF_vars(ReleaseWake(n))
    /\ \A n \in Callers : WF_vars(WakeArmed(n))

FairSpec == Init /\ [][Next]_vars /\ Fairness

\* Two executors side by side: both threads call block_on, and their tasks
\* are woken from inside their own polls only (no Waker leaves its thread,
\* which keeps the product of the two executors small).
Next2 ==
    \/ \E t \in Threads, s \in Scripts : block_on(t, s)
    \/ \E t \in Threads : PollReady(t)
    \/ \E t \in Threads : PollPending(t)
    \/ \E t \in Threads : PollPanic(t)
    \/ \E t \in Threads : ConsumeWake(t)
    \/ \E t \in Threads : Park(t)
    \/ \E t \in Threads : ParkSpurious(t)
    \/ \E n \in Threads : SelfWake(n)

TwoSpec == Init /\ [][Next2]_vars

\* The Waker's operations next to one executor, with clones of the Waker
\* cloned in their turn: owned clones exist side by side (up to two more
\* than MaxClones) while the owning thread polls, is at its swap, is parked, and
\* after it has returned.
NextWaker ==
    \/ \E t \in Callers, s \in Scripts : block_on(t, s)
    \/ \E t \in Threads : PollReady(t)
    \/ \E t \in Threads : PollPending(t)
    \/ \E t \in Threads : PollPanic(t)
    \/ \E t \in Threads : ConsumeWake(t)
    \/ \E t \in Threads : Park(t)
    \/ \E t \in Threads : ParkSpurious(t)
    \/ \E n \in Threads : clone_arc_raw_upto(n, MaxClones + 2)
    \/ \E n \in Threads : drop_arc_raw(n)
    \/ \E n \in Threads : wake_arc_raw(n)
    \/ \E n \in Threads : WakeArmed(n)
    \/ \E n \in Threads : wake_by_ref_arc_raw(n)
    \/ \E n \in Threads : SelfWake(n)
    \/ \E n \in Threads : UnparkWake(n)
    \/ \E n \in Threads : UnparkRef(n)
    \/ \E n \in Threads : ReleaseWake(n)

WakerSpec == Init /\ [][NextWaker]_vars

\* ---- the end of a thread ----

\* Thread t, running no call, ends: its thread-locals are destroyed, and
\* with CURRENT_THREAD_NOTIFY the reference it held, if it was ever built.
ThreadExit(t) ==
    /\ PC(t) = "idle"
    /\ ~exited[t]
    /\ exited' = [exited EXCEPT ![t] = TRUE]
    /\ refcount' = [refcount EXCEPT ![t] = IF @ > 0 THEN DropArc(@) ELSE @]
    /\ UNCHANGED <<callVars, notifyVars, token, clones, armed, opVars, unparks, ioVars>>

NextExit ==
    \/ Next
    \/ \E t \in Callers : ThreadExit(t)

ExitSpec == Init /\ [][NextExit]_vars

\* ---- the error chain: Drop for TracebackError (src/utils/src/error_types.rs) ----
\* The case followed here: an asynchronous reporting callback is registered
\* (TRACEBACK_ERROR_CALLBACK is Some(Async(f))) and no ambient scheduler is
\* active on the dropping thread.

\* The flags of a TracebackError that its Drop looks at.
Errors == [is_parent : BOOLEAN, is_handled : BOOLEAN, is_default : BOOLEAN]

\* `if self.is_parent || self.is_handled || self.is_default { return; }`
Reportable(e) == ~(e.is_parent \/ e.is_handled \/ e.is_default)

\* sync_if_no_runtime!(fut) with no ambient scheduler: the future is handed
\* to the blocking executor on the calling thread. The macro's definition is
\* not part of the source tree at hand; this is what its specification says.
sync_if_no_runtime(t, s) == block_on(t, s)

\* drop(&mut self) of a reportable error: the callback's future f.call(this),
\* described by its script s, goes through sync_if_no_runtime!. (The drop of
\* an error that is not reportable returns at once and changes nothing.)
DropTracebackError(t, e, s) ==
    /\ Reportable(e)
    /\ sync_if_no_runtime(t, s)

\* The executor as the error chain uses it: every blocking call is the drop
\* of a TracebackError.
NextDrop ==
    \/ \E t \in Callers, e \in Errors, s \in Scripts : DropTracebackError(t, e, s)
    \/ \E t \in Threads : PollReady(t)
    \/ \E t \in Threads : PollPending(t)
    \/ \E t \in Threads : PollPanic(t)
    \/ \E t \in Threads : ConsumeWake(t)
    \/ \E t \in Threads : Park(t)
    \/ \E t \in Threads : ParkSpurious(t)
    \/ \E n \in Threads : clone_arc_raw(n)
    \/ \E n \in Threads : drop_arc_raw(n)
    \/ \E n \in Threads : wake_arc_raw(n)
    \/ \E n \in Threads : WakeArmed(n)
    \/ \E n \in Threads : wake_by_ref_arc_raw(n)
    \/ \E n \in Threads : SelfWake(n)
    \/ \E n \in Threads : UnparkWake(n)
    \/ \E n \in Threads : UnparkRef(n)
    \/ \E n \in Threads : ReleaseWake(n)

DropSpec == Init /\ [][NextDrop]_vars

\* ---- Drop for TracebackError with a synchronous callback registered ----
\* (TRACEBACK_ERROR_CALLBACK is Some(Sync(f)): f.call(this) is a plain call.)

MaxParents == 2   \* ancestors an error carries in `parent`
MaxErrs    == 2   \* errors that go out of scope, one after the other

\* A TracebackError is a record of its fields, `parent` apart: a value with
\* its ancestors is the sequence <<the error, its parent, the parent's
\* parent, ...>>, and the functions below take and return such sequences.
\* An Option<String> is <<>> (None) or <<s>> (Some(s)); subscribers is the
\* sequence of the addresses; extra_data is a serde_json::Value.
\* time_created is left out: neither Drop nor eq reads it.

\* TracebackError::default()
DefaultError ==
    [message |-> "Default message", file |-> "src/error_types.rs", line |-> 42,
     extra_data |-> [t |-> "Null"], subscribers |-> <<>>,
     project |-> <<>>, computer |-> <<>>, user |-> <<>>,
     is_parent |-> FALSE, is_handled |-> FALSE, is_default |-> TRUE]

\* TracebackError::new(message, file, line)
new(message, file, line) ==
    <<[message |-> message, file |-> file, line |-> line,
       extra_data |-> [t |-> "Null"], subscribers |-> <<>>,
       project |-> <<>>, computer |-> <<>>, user |-> <<>>,
       is_parent |-> FALSE, is_handled |-> FALSE, is_default |-> FALSE]>>

\* with_extra_data, with_subscribers, with_project, with_computer_name,
\* with_username: each clears is_default and sets its field.
with_extra_data(c, extra_data) ==
    [c EXCEPT ![1].is_default = FALSE, ![1].extra_data = extra_data]
with_subscribers(c, subscribers) ==
    [c EXCEPT ![1].is_default = FALSE, ![1].subscribers = subscribers]
with_project(c, project) ==
    [c EXCEPT ![1].is_default = FALSE, ![1].project = <<project>>]
with_computer_name(c, computer) ==
    [c EXCEPT ![1].is_default = FALSE, ![1].computer = <<computer>>]
with_username(c, user) ==
    [c EXCEPT ![1].is_default = FALSE, ![1].user = <<user>>]

\* with_env_vars, in an environment env of the three variables it reads;
\* std::env::var(name) is <<v>> for Ok(v) and <<>> for Err.
with_env_vars(c, env) ==
    LET EnvOr(var, missing) == IF var = <<>> THEN missing ELSE var[1]
    IN [c EXCEPT
          ![1].is_default = FALSE,
          ![1].project  = <<EnvOr(env.CARGO_PKG_NAME, "Unknown due to CARGO_PKG_NAME missing")>>,
          ![1].computer = <<EnvOr(env.COMPUTERNAME, "Unknown due to COMPUTERNAME missing")>>,
          ![1].user     = <<EnvOr(env.USERNAME, "Unknown due to USERNAME missing")>>]

\* Mutant of with_is_parent: the flag is_parent is left as it was.
with_is_parent_Ignored(c, is_parent) == [c EXCEPT ![1].is_default = FALSE]

\* with_is_parent(mut self, is_parent)
with_is_parent(c, is_parent) ==
    [c EXCEPT ![1].is_default = FALSE, ![1].is_parent = is_parent]

\* with_parent(mut self, parent), called on an error that has no parent yet:
\* `self.is_default = false; self.parent = Some(Box::new(parent.with_is_parent(true)))`
with_parent(c, parent) ==
    <<[c[1] EXCEPT !.is_default = FALSE]>> \o with_is_parent(parent, TRUE)

\* `e.is_handled = h` on a value the program holds (a public field)
SetHandled(c, h) == [c EXCEPT ![1].is_handled = h]

\* The errors a program makes that differ in what Drop looks at: new(..) at
\* one place with each message, default(), and default().with_is_parent(..),
\* each with is_parent set or not by with_is_parent and is_handled set or
\* not.
PlainErrors ==
    { SetHandled(c, h)[1] :
        <<c, h>> \in ( { new(m, "f", 1) : m \in Values \cup {"Default message"} }
                       \cup { with_is_parent(new(m, "f", 1), p) :
                                <<m, p>> \in (Values \cup {"Default message"}) \X BOOLEAN }
                       \cup { <<DefaultError>> }
                       \cup { with_is_parent(<<DefaultError>>, p) : p \in BOOLEAN } )
                     \X BOOLEAN }

\* Errors that differ from new("a", "f", 1) in one of the other fields, and
\* the default value with one of them set.
DetailedErrors ==
    { c[1] : c \in
        { new("a", "f", 2), new("a", "g", 1),
          with_extra_data(new("a", "f", 1), [t |-> "String", v |-> "x"]),
          with_subscribers(new("a", "f", 1), <<"s">>),
          with_project(new("a", "f", 1), "p"),
          with_computer_name(new("a", "f", 1), "c"),
          with_username(new("a", "f", 1), "u"),
          with_env_vars(new("a", "f", 1),
                        [CARGO_PKG_NAME |-> <<"p">>, COMPUTERNAME |-> <<>>, USERNAME |-> <<>>]),
          with_project(<<DefaultError>>, "p") } }

\* What new(), default() and the with_ functions make of the error itself.
NewErrors == PlainErrors \cup DetailedErrors

\* A parent as with_parent stores it: parent.with_is_parent(true). (The
\* ancestors all carry the same fields.)
ParentError == with_is_parent(new("a", "f", 1), TRUE)[1]

\* The errors of E with their ancestors; with_parent clears is_default of
\* the error it is called on, so the default value has none.
ChainsOf(E) ==
    { <<e>> \o [i \in 1..n |-> ParentError] :
        <<e, n>> \in { x \in E \X (0..MaxParents) : x[1].is_default => x[2] = 0 } }

\* Mutant of TakeHandled: `this.is_handled = true` is left out.
TakeHandled_NotMarked(c) == c

\* `let mut this = std::mem::take(self); this.is_handled = true;`
TakeHandled(c) == [c EXCEPT ![1].is_handled = TRUE]

\* The drop glue that follows Drop::drop: the fields of the value are
\* dropped, of which `parent` alone holds a TracebackError.
ParentOf(c) == IF Len(c) > 1 THEN <<Tail(c)>> ELSE <<>>

\* The errors that go out of scope: output.pending is the stack of values
\* being dropped (the next one first), output.reports the calls of f so far.
\* Drop reads the three flags only, so the errors that differ in the other
\* fields are dropped without ancestors.
ErrInit ==
    /\ ExecInit
    /\ LET DroppedErrors == ChainsOf(PlainErrors) \cup { <<e>> : e \in DetailedErrors }
       IN input \in UNION { [1..n -> DroppedErrors] : n \in 1..MaxErrs }
    /\ output = [pending |-> input, reports |-> <<>>]

\* drop(&mut self) returns at its first line; the glue drops the parent.
DropSilent ==
    /\ output.pending # <<>>
    /\ LET c == Head(output.pending) IN
         /\ ~Reportable(c[1])
         /\ output' = [output EXCEPT !.pending = ParentOf(c) \o Tail(@)]
    /\ UNCHANGED <<execVars, input>>

\* drop(&mut self) of a reportable error: self becomes the default value
\* (whose glue has no parent to drop), and f.call(this) gets the contents,
\* which f drops when it is done with them.
DropReported ==
    /\ output.pending # <<>>
    /\ LET c    == Head(output.pending)
           this == TakeHandled(c)
       IN /\ Reportable(c[1])
          /\ output' = [output EXCEPT
                          !.pending = <<this>> \o ParentOf(<<DefaultError>>)
                                          \o Tail(output.pending),
                          !.reports = Append(output.reports, this)]
    /\ UNCHANGED <<execVars, input>>

ErrNext ==
    \/ DropSilent
    \/ DropReported

ErrSpec == ErrInit /\ [][ErrNext]_vars

\* ---- PartialEq for TracebackError ----

\* self.clone(), other.clone(): the derived Clone copies every field, the
\* flags and the ancestors included.
CloneError(c) == c

\* new("a", "f", 1) with ancestors as a program stores them through the
\* public fields `parent` and `is_parent` (or reads them with Deserialize):
\* as with_parent marks them, or not marked is_parent, handled or not, with
\* either message.
PubChains ==
    LET PubParents == { ParentError }
                        \cup { SetHandled(new("a", "f", 1), h)[1] : h \in BOOLEAN }
                        \cup { new("b", "f", 1)[1] }
    IN { new("a", "f", 1) \o ps :
           ps \in UNION { [1..n -> PubParents] : n \in 1..MaxParents } }

\* fn eq(&self, other: &Self): `let (this, mut other) = (self.clone(),
\* other.clone()); other.is_handled = this.is_handled;`, then the fields
\* compared in the order of the code, && ending at the first that differs.
\* is_handled and is_default are not looked at. `this.parent ==
\* other.parent` on two Some is a call of this same eq on the parents, which
\* makes and drops its own two clones; with one None it is false, with two
\* it is true. The value is the result and the locals that went out of
\* scope, in the order they did: those of the call on the parents when it
\* returns, then `other` and `this`.
RECURSIVE eq(_, _)
eq(self, rhs) ==
    LET this   == CloneError(self)
        other  == [CloneError(rhs) EXCEPT ![1].is_handled = this[1].is_handled]
        before == /\ this[1].message = other[1].message
                  /\ this[1].file = other[1].file
                  /\ this[1].line = other[1].line
        parent == IF before /\ Len(this) > 1 /\ Len(other) > 1
                    THEN eq(Tail(this), Tail(other))
                    ELSE [result |-> Len(this) = Len(other), dropped |-> <<>>]
    IN [result  |-> /\ before
                    /\ parent.result
                    /\ this[1].extra_data = other[1].extra_data
                    /\ this[1].subscribers = other[1].subscribers
                    /\ this[1].project = other[1].project
                    /\ this[1].computer = other[1].computer
                    /\ this[1].user = other[1].user
                    /\ this[1].is_parent = other[1].is_parent,
        dropped |-> parent.dropped \o <<other, this>>]

\* The two operands of ==; output.result is the value returned ("none"
\* before the call), output.pending the locals of eq and of its calls on
\* the parents going out of scope, output.reports the calls of the callback
\* so far.
EqInit ==
    /\ ExecInit
    /\ LET Operands == ChainsOf(NewErrors) \cup PubChains
       IN input \in Operands \X Operands
    /\ output = [pending |-> <<>>, reports |-> <<>>, result |-> "none",
                 operands |-> input]

\* self == other
Call_eq ==
    /\ output.result = "none"
    /\ LET r == eq(input[1], input[2])
       IN output' = [output EXCEPT
                       !.result  = IF r.result THEN "true" ELSE "false",
                       !.pending = r.dropped]
    /\ UNCHANGED <<execVars, input>>

EqNext ==
    \/ Call_eq
    \/ DropSilent
    \/ DropReported

EqSpec == EqInit /\ [][EqNext]_vars

\* ---- with_parent: a chain of errors built and dropped ----

\* The errors of a chain in the order they are made, the innermost first:
\* input[1] is made, then each following one is made and given the chain so
\* far as its parent (as traceback!(err e) does up a call stack).
\*   output.chain: the chain so far; output.next: the next error to make;
\*   output.live: the chain has not yet gone out of scope.
ChainInit ==
    /\ ExecInit
    /\ input \in UNION { [1..n -> PlainErrors] : n \in 1..(MaxParents + 1) }
                  \cup { <<e>> : e \in DetailedErrors }
    /\ output = [chain |-> <<input[1]>>, next |-> 2, live |-> TRUE,
                 pending |-> <<>>, reports |-> <<>>]

\* let e = TracebackError::new(..).with_parent(e)
Call_with_parent ==
    /\ output.live
    /\ output.next <= Len(input)
    /\ output' = [output EXCEPT
                    !.chain = with_parent(<<input[output.next]>>, output.chain),
                    !.next  = @ + 1]
    /\ UNCHANGED <<execVars, input>>

\* The outermost error, the owner of the chain, goes out of scope.
EndOfScope ==
    /\ output.live
    /\ output.next > Len(input)
    /\ output' = [output EXCEPT !.live = FALSE, !.pending = <<output.chain>>]
    /\ UNCHANGED <<execVars, input>>

ChainNext ==
    \/ Call_with_parent
    \/ EndOfScope
    \/ DropSilent
    \/ DropReported

ChainSpec == ChainInit /\ [][ChainNext]_vars

\* ---- csv2json.rs: csv_to_json and json_to_csv ----
\* A CSV text is taken as csv::Reader delivers it and csv::Writer writes it:
\* a sequence of records (the header row first), each a sequence of fields;
\* fields are plain non-empty strings, every record ends with a newline.
\* csv_to_json is given a Reader its caller has built: over such a text,
\* taking the first row as the header row, and flexible (records of any
\* length are read) or not (Reader::from_reader, as the tests build it).

MaxCols == 2   \* fields in a record
MaxRows == 3   \* records in a text, the header row included

\* The strings that occur as fields, in the order of String's Ord.
StringOrder == <<"a", "b">>
CsvFields   == { StringOrder[i] : i \in 1..Len(StringOrder) }
Rank(f)     == CHOOSE i \in 1..Len(StringOrder) : StringOrder[i] = f

CsvRecords == UNION { [1..n -> CsvFields] : n \in 1..MaxCols }
CsvTexts   == UNION { [1..n -> CsvRecords] : n \in 0..MaxRows }
CsvReaders == [text : CsvTexts, flexible : BOOLEAN]

\* Result<T, TracebackError>, the error told by its message.
Ok(v)  == [ok |-> TRUE, val |-> v]
Err(m) == [ok |-> FALSE, err |-> m]

\* serde_json::Map::insert: a later value for the same key replaces the
\* earlier one.
MapInsert(obj, k, v) ==
    [x \in (DOMAIN obj) \cup {k} |-> IF x = k THEN v ELSE obj[x]]

\* serde_json::Map::new(), as a function with no key.
EmptyMap == [x \in {} |-> x]

\* `for (i, header) in headers.iter().enumerate()`: the object of one
\* record, from column i on. record.get(i) is None for a record shorter
\* than the header row.
RECURSIVE RecordObject(_, _, _, _)
RecordObject(headers, record, i, obj) ==
    IF i > Len(headers) THEN Ok(obj)
    ELSE IF i > Len(record) THEN Err("Failed to get current record")
    ELSE RecordObject(headers, record, i + 1, MapInsert(obj, headers[i], record[i]))

\* One item of csv.records(): a Reader that is not flexible gives an Err for
\* a record whose number of fields differs from that of the first record
\* read, the header row; a flexible one gives every record as it is.
ReadRecord(flexible, headers, record) ==
    IF ~flexible /\ Len(record) # Len(headers)
      THEN Err("Failed to read CSV record")
      ELSE Ok(record)

\* Mutant of csv_to_json_from: a record that cannot be read is skipped.
RECURSIVE csv_to_json_from_Skips(_, _, _, _)
csv_to_json_from_Skips(flexible, headers, rest, records) ==
    IF rest = <<>> THEN Ok(records)
    ELSE LET r == ReadRecord(flexible, headers, Head(rest)) IN
         IF ~r.ok THEN csv_to_json_from_Skips(flexible, headers, Tail(rest), records)
         ELSE LET o == RecordObject(headers, r.val, 1, EmptyMap) IN
              IF ~o.ok THEN o
              ELSE csv_to_json_from_Skips(flexible, headers, Tail(rest),
                                          Append(records, o.val))

\* `for result in csv.records()`: the records still to read, the objects so far.
RECURSIVE csv_to_json_from(_, _, _, _)
csv_to_json_from(flexible, headers, rest, records) ==
    IF rest = <<>> THEN Ok(records)
    ELSE LET r == ReadRecord(flexible, headers, Head(rest)) IN
         IF ~r.ok THEN r
         ELSE LET o == RecordObject(headers, r.val, 1, EmptyMap) IN
              IF ~o.ok THEN o
              ELSE csv_to_json_from(flexible, headers, Tail(rest), Append(records, o.val))

\* csv_to_json: the first record is the header row (an empty text has an
\* empty one and no records).
csv_to_json(csv) ==
    IF csv.text = <<>> THEN Ok(<<>>)
    ELSE csv_to_json_from(csv.flexible, Head(csv.text), Tail(csv.text), <<>>)

\* `collected_headers.sort()`
RECURSIVE SortedKeys(_)
SortedKeys(keys) ==
    IF keys = {} THEN <<>>
    ELSE LET m == CHOOSE x \in keys : \A y \in keys : Rank(x) <= Rank(y)
         IN <<m>> \o SortedKeys(keys \ {m})

\* `for header in &collected_headers`: one output record, from header i on.
RECURSIVE RecordRow(_, _, _, _)
RecordRow(headers, record, i, row) ==
    IF i > Len(headers) THEN Ok(row)
    ELSE IF headers[i] \notin DOMAIN record
           THEN Err("Failed to get value from json record")
    ELSE RecordRow(headers, record, i + 1, Append(row, record[headers[i]]))

\* `for record in arr`
RECURSIVE json_to_csv_from(_, _, _)
json_to_csv_from(headers, rest, rows) ==
    IF rest = <<>> THEN Ok(rows)
    ELSE LET r == RecordRow(headers, Head(rest), 1, <<>>) IN
         IF ~r.ok THEN r
         ELSE json_to_csv_from(headers, Tail(rest), Append(rows, r.val))

\* json_to_csv of a JSON array of objects with string values: the keys of
\* the first object, sorted, are the header row.
json_to_csv(json) ==
    IF json = <<>> THEN Err("Failed to get zeroth element of json array")
    ELSE LET collected_headers == SortedKeys(DOMAIN Head(json))
         IN json_to_csv_from(collected_headers, json, <<collected_headers>>)

CsvInit ==
    /\ ExecInit
    /\ input \in CsvReaders
    /\ output = [json |-> NoValue, csv |-> NoValue]

\* let json = csv_to_json(csv)
Call_csv_to_json ==
    /\ output.json = NoValue
    /\ output' = [output EXCEPT !.json = csv_to_json(input)]
    /\ UNCHANGED <<execVars, input>>

\* let csv = json_to_csv(json.unwrap())
Call_json_to_csv ==
    /\ output.json # NoValue /\ output.json.ok
    /\ output.csv = NoValue
    /\ output' = [output EXCEPT !.csv = json_to_csv(output.json.val)]
    /\ UNCHANGED <<execVars, input>>

CsvNext ==
    \/ Call_csv_to_json
    \/ Call_json_to_csv

CsvSpec == CsvInit /\ [][CsvNext]_vars

\* ---- json.rs: generate_schema ----
\* serde_json::Value, tagged by its variant; the payload of a scalar is kept
\* as a string, an array is a sequence, an object a function of its keys.

MaxItems == 2   \* elements of an array

JNull   == [t |-> "Null"]
JBool(b) == [t |-> "Bool", v |-> b]
JNum(n)  == [t |-> "Number", v |-> n]
JStr(x)  == [t |-> "String", v |-> x]
JArr(q)  == [t |-> "Array", v |-> q]
JObj(f)  == [t |-> "Object", v |-> f]

Scalars == {JNull, JBool("true"), JBool("false"), JNum("1"), JNum("2"), JStr("a")}

ArraysOf(S)     == { JArr(q) : q \in UNION { [1..n -> S] : n \in 0..MaxItems } }
ObjectsOf(K, S) == { JObj(f) : f \in UNION { [D -> S] : D \in SUBSET K } }

\* The values generate_schema is given: scalars, arrays and objects of
\* scalars, and arrays and objects of the smaller ones among those.
FlatValues  == Scalars \cup ArraysOf(Scalars) \cup ObjectsOf(CsvFields, Scalars)
SmallValues == Scalars \cup { JArr(<<>>) } \cup { JArr(<<x>>) : x \in Scalars }
                       \cup ObjectsOf({"a"}, Scalars)
JsonValues  == FlatValues \cup ArraysOf(SmallValues) \cup ObjectsOf(CsvFields, SmallValues)

\* Option<Value> of the fold over the items of an array.
None    == [some |-> FALSE]
Some(x) == [some |-> TRUE, val |-> x]

\* Mutant of ScalarType: numbers are given the type "integer".
ScalarType_Integer(t) ==
    CASE t = "Null"   -> "null"
      [] t = "Bool"   -> "boolean"
      [] t = "Number" -> "integer"
      [] t = "String" -> "string"

\* The "type" of the four scalar variants: Null, Bool, Number, String.
ScalarType(t) ==
    CASE t = "Null"   -> "null"
      [] t = "Bool"   -> "boolean"
      [] t = "Number" -> "number"
      [] t = "String" -> "string"

\* Mutant of FoldItem: a second item always makes a pair, equal or not.
FoldItem_AlwaysPair(schema, item_schema) ==
    IF schema.some THEN Some(JArr(<<schema.val, item_schema>>)) ELSE Some(item_schema)

\* The closure of `arr.iter().fold(None, |schema, item| ...)`.
FoldItem(schema, item_schema) ==
    IF schema.some
      THEN IF schema.val # item_schema
             THEN Some(JArr(<<schema.val, item_schema>>))
             ELSE Some(schema.val)
      ELSE Some(item_schema)

\* obj.keys().cloned().collect::<Vec<String>>(), in the order of the map.
RequiredKeys(obj) ==
    LET keys == SortedKeys(DOMAIN obj) IN JArr([i \in 1..Len(keys) |-> JStr(keys[i])])

RECURSIVE generate_schema(_)
RECURSIVE FoldSchemas(_, _, _)

\* The fold over arr, from item i on.
FoldSchemas(arr, i, schema) ==
    IF i > Len(arr) THEN schema
    ELSE FoldSchemas(arr, i + 1, FoldItem(schema, generate_schema(arr[i])))

generate_schema(value) ==
    IF value.t = "Array"
      THEN LET items_schema == FoldSchemas(value.v, 1, None) IN
           JObj([type |-> JStr("array"),
                 items |-> IF items_schema.some THEN items_schema.val ELSE JObj(EmptyMap)])
    ELSE IF value.t = "Object"
      THEN JObj([type |-> JStr("object"),
                 properties |-> JObj([k \in DOMAIN value.v |-> generate_schema(value.v[k])]),
                 required |-> RequiredKeys(value.v)])
    ELSE JObj([type |-> JStr(ScalarType(value.t))])

SchemaInit ==
    /\ ExecInit
    /\ input \in JsonValues
    /\ output = NoValue

\* let schema = generate_schema(&input)
Call_generate_schema ==
    /\ output = NoValue
    /\ output' = generate_schema(input)
    /\ UNCHANGED <<execVars, input>>

SchemaNext == Call_generate_schema

SchemaSpec == SchemaInit /\ [][SchemaNext]_vars

\* ---- geojson.rs: coords_to_vec, map_to_vec, map_to_vec_inner ----
\* The input is a Vec<Value>.  A well-formed one is a sequence of arrays
\* (coordinates) of arrays (points) of numbers; the inputs drawn are the
\* well-formed ones of every shape within the bounds, and each of them with
\* one element, at any of the three levels, replaced by a value of the
\* wrong kind.

MaxCoords == 2   \* coordinates in the input vector
MaxRing   == 2   \* points in a coordinate
MaxPoint  == 2   \* numbers in a point

NonArrays  == {JNull, JNum("1"), JStr("a")}
NonNumbers == {JNull, JStr("a"), JBool("true"), JArr(<<>>)}

GoodNumber(i)       == IF i % 2 = 1 THEN JNum("1") ELSE JNum("2")
GoodPoint(k)        == JArr([i \in 1..k |-> GoodNumber(i)])
GoodCoord(m, k)     == JArr([j \in 1..m |-> GoodPoint(k)])
GoodCoords(n, m, k) == [c \in 1..n |-> GoodCoord(m, k)]

GoodInputs ==
    { GoodCoords(n, m, k) : <<n, m, k>> \in (0..MaxCoords) \X (0..MaxRing) \X (0..MaxPoint) }

\* q with its coordinate c, its point (c, j), its number (c, j, i) replaced by d
WithCoord(q, c, d)        == [q EXCEPT ![c] = d]
WithPoint(q, c, j, d)     == [q EXCEPT ![c] = JArr([q[c].v EXCEPT ![j] = d])]
WithNumber(q, c, j, i, d) ==
    WithPoint(q, c, j, JArr([q[c].v[j].v EXCEPT ![i] = d]))

BadCoordInputs ==
    UNION { { WithCoord(q, c, d) : <<c, d>> \in (1..Len(q)) \X NonArrays } : q \in GoodInputs }
BadPointInputs ==
    UNION { UNION { { WithPoint(q, c, j, d) : <<j, d>> \in (1..Len(q[c].v)) \X NonArrays }
                    : c \in 1..Len(q) } : q \in GoodInputs }
BadNumberInputs ==
    UNION { UNION { UNION { { WithNumber(q, c, j, i, d)
                              : <<i, d>> \in (1..Len(q[c].v[j].v)) \X NonNumbers }
                            : j \in 1..Len(q[c].v) } : c \in 1..Len(q) } : q \in GoodInputs }

GeoInputs == GoodInputs \cup BadCoordInputs \cup BadPointInputs \cup BadNumberInputs

\* Value::as_array
as_array(v) == IF v.t = "Array" THEN Some(v.v) ELSE None

\* Value::as_f64: the number as an f64, None for any other variant
F64(n) ==
    CASE n = "1" -> "1.0"
      [] n = "2" -> "2.0"
as_f64(v) == IF v.t = "Number" THEN Some(F64(v.v)) ELSE None

\* TracebackError::new(msg, ..) and traceback!(err e): a new error carrying
\* e's message, with e as its parent
NewError(m)  == [message |-> m, parents |-> 0]
WrapError(e) == [message |-> e.message, parents |-> e.parents + 1]

\* element_inner.as_f64().unwrap_or_else(|| { traceback!(..)..; 0.0 }): the
\* error built in the closure is dropped there and 0.0 is the element
element_f64(element_inner) ==
    IF as_f64(element_inner).some THEN as_f64(element_inner).val ELSE "0.0"

map_to_vec_inner(value) ==
    IF ~as_array(value).some
    THEN Err(NewError("Expected an array as a parameter"))
    ELSE LET value_element == as_array(value).val
         IN  Ok([i \in 1..Len(value_element) |-> element_f64(value_element[i])])

\* for element in c_array { match map_to_vec_inner(element) { Ok => push, Err => return } }
RECURSIVE map_to_vec_from(_, _, _)
map_to_vec_from(c_array, j, result) ==
    IF j > Len(c_array) THEN Ok(result)
    ELSE LET r == map_to_vec_inner(c_array[j])
         IN  IF r.ok THEN map_to_vec_from(c_array, j + 1, Append(result, r.val))
             ELSE Err(WrapError(r.err))

map_to_vec(c) ==
    IF ~as_array(c).some
    THEN Err(NewError("Expected an array as a parameter"))
    ELSE map_to_vec_from(as_array(c).val, 1, <<>>)

\* for coordinate in coordinates { match map_to_vec(coordinate) { .. } }
RECURSIVE coords_to_vec_from(_, _, _)
coords_to_vec_from(coordinates, c, result) ==
    IF c > Len(coordinates) THEN Ok(result)
    ELSE LET r == map_to_vec(coordinates[c])
         IN  IF r.ok THEN coords_to_vec_from(coordinates, c + 1, Append(result, r.val))
             ELSE Err(WrapError(r.err))

coords_to_vec(coordinates) == coords_to_vec_from(coordinates, 1, <<>>)

GeoInit ==
    /\ ExecInit
    /\ input \in GeoInputs
    /\ output = NoValue

\* let result = coords_to_vec(&coordinates)
Call_coords_to_vec ==
    /\ output = NoValue
    /\ output' = coords_to_vec(input)
    /\ UNCHANGED <<execVars, input>>

GeoNext == Call_coords_to_vec

GeoSpec == GeoInit /\ [][GeoNext]_vars

\* ======================= claims =======================

Returned(t) == ~InCall(t) /\ outcome[t].kind = "returned"
Panicked(t) == ~InCall(t) /\ outcome[t].kind = "panicked"

\* The task of the claim C1: it does not panic, and every Pending it returns
\* comes with a wake armed on a separate thread (n = 0: no Pending at all).
WokenTask(f) == ~f.panics /\ (f.n = 0 \/ f.arms)

\* C1: a task that returns Pending n times, is woken from a separate thread
\* after each Pending and then returns Ready(v) makes block_on return, and
\* the value returned is v.
C1_ReturnsFinalValue ==
    \A t \in Threads : \A v \in Values :
        (InCall(t) /\ Len(stack[t]) = 1 /\ WokenTask(Top(t)) /\ Top(t).val = v)
            ~> (Returned(t) /\ outcome[t].val = v)

\* C1 witness: a call whose task returned Pending MaxPending times, each
\* answered by an armed wake, has returned its value after MaxPending + 1 polls.
C1_Witness ==
    \E t \in Threads :
        /\ Returned(t)
        /\ outcome[t].val = "b"
        /\ outcome[t].call.arms
        /\ outcome[t].call.pendings = MaxPending
        /\ outcome[t].call.parked
        /\ armed[t] = 0

\* C2: when block_on has returned a value on a thread, that thread's
\* reentrancy flag is false again.
C2_GuardReleasedOnReturn ==
    \A t \in Threads : Returned(t) => ~ENTERED[t]

\* C3: a thread's reentrancy flag is true if and only if a block_on call is
\* in progress on that thread.
C3_FlagIffInProgress ==
    \A t \in Threads : ENTERED[t] <=> InCall(t)

\* C4: when a panic of the task has left block_on, the calling thread's
\* reentrancy flag is false again.
C4_GuardReleasedOnPanic ==
    \A t \in Threads : Panicked(t) => ~ENTERED[t]

\* C5: a wake that set the pending flag is not lost: whenever the owning
\* thread is past a Pending poll (at its swap or in park) and the flag is
\* true, it polls the task again.
C5_WakeNotLost ==
    \A t \in Threads :
        (PC(t) \in {"swap", "park"} /\ unparked[t]) ~> (PC(t) = "polling")

\* C5 witness: the race itself. The owner found the flag false and is in
\* park without a token; a wake has set the flag and has not unparked yet.
C5_Witness ==
    \E t \in Threads :
        /\ PC(t) = "park"
        /\ unparked[t]
        /\ ~token[t]
        /\ uw[t] + ur[t] > 0

\* C6: a block_on call made on a thread that is inside a block_on call is
\* rejected at once: no step taken while a call is in progress on a thread
\* enters a second frame there (so the inner task is not polled and the
\* thread does not park for it), and a call that ends while the frame in
\* progress stays as it is ends with the reentrancy error.
C6_NestedRejected ==
    [][\A t \in Threads :
         InCall(t) =>
            /\ Len(stack'[t]) <= Len(stack[t])
            /\ (outcome'[t] # outcome[t] /\ stack'[t] = stack[t])
                  => outcome'[t].kind = "rejected" /\ UNCHANGED <<unparked, token>>]_vars

\* C6 witness: a nested call has been rejected while the outer call goes on.
C6_Witness ==
    \E t \in Threads : InCall(t) /\ outcome[t].kind = "rejected" /\ PC(t) = "polling"

\* C7: every false->true swap of request_wake has exactly one unpark (made
\* or about to be made) and there is no other unpark; the k >= 1 request_wake
\* calls since the last consume_wake issue exactly one unpark between them.
C7_OneUnparkPerWindow ==
    \A t \in Threads :
        /\ unparks[t] + uw[t] + ur[t] = flips[t]
        /\ wakesSince[t] = 0 => unparksSince[t] = 0
        /\ wakesSince[t] >= 1 => unparksSince[t] = 1

\* C7 witness: two or more request_wake calls in one window, one unpark.
C7_Witness ==
    \E t \in Threads : wakesSince[t] >= 2 /\ unparksSince[t] = 1 /\ unparks[t] >= 1

\* C8: at each consume_wake of the poll loop, k >= 1 wakes delivered since
\* the last one cause exactly one further poll (and leave the flag false, so
\* that none of them causes another), and k = 0 causes none.
C8_OneRepollPerWindow ==
    [][\A t \in Threads :
         (PC(t) = "swap" /\ stack'[t] # stack[t])
            => IF wakesSince[t] >= 1
                 THEN /\ Top(t)'.pc = "polling"
                      /\ Top(t)'.polls = Top(t).polls + 1
                      /\ ~unparked'[t]
                 ELSE /\ Top(t)'.pc = "park"
                      /\ Top(t)'.polls = Top(t).polls]_vars

\* C8 witness: two wake calls (both still in flight: one about to unpark,
\* one coalesced and about to drop its Arc) made one transition of the flag,
\* which the consume_wake took, and the call is in its second poll.
C8_Witness ==
    \E t \in Threads :
        /\ PC(t) = "polling" /\ Top(t).polls = 2 /\ ~unparked[t]
        /\ flips[t] = 1 /\ uw[t] + ur[t] = 1 /\ rel[t] = 1

\* C9: no busy-spin. The polls of a call are its Pending results plus the
\* poll in progress or the final one; every poll after the first follows a
\* consume_wake that returned true; so polls <= 1 + false->true transitions.
C9_NoBusySpin ==
    \A t \in Threads :
        /\ InCall(t) =>
             /\ Top(t).polls = Top(t).pendings + (IF Top(t).pc = "polling" THEN 1 ELSE 0)
             /\ Top(t).polls = 1 + Top(t).woken
             /\ Top(t).polls <= 1 + flips[t]
        /\ Returned(t) =>
             /\ outcome[t].call.polls = outcome[t].call.pendings + 1
             /\ outcome[t].call.polls = 1 + outcome[t].call.woken
             /\ outcome[t].call.polls <= 1 + flips[t]

\* C9 witness: a call has returned after spurious returns of park and
\* MaxPending real wakes, with MaxPending + 1 polls.
C9_Witness ==
    \E t \in Threads :
        /\ Returned(t)
        /\ outcome[t].call.parked
        /\ outcome[t].call.polls = MaxPending + 1
        /\ flips[t] = MaxPending

\* C10: as long as wake and wake_by_ref have never been called, a task whose
\* first poll returned Pending is not polled again and block_on does not
\* return, whatever happens to the clones of the Waker.
C10_NoWakeNoProgress ==
    \A t \in Threads :
        flips[t] = 0 =>
            /\ InCall(t) /\ Top(t).pendings >= 1
                 => Top(t).polls = 1 /\ PC(t) \in {"swap", "park"}
            /\ ~InCall(t) /\ outcome[t].kind \in {"returned", "panicked"}
                 => outcome[t].call.pendings = 0

\* C10 witness: the first poll returned Pending, a clone was made and every
\* clone has been dropped unused, and the thread is in park.
C10_Witness ==
    \E t \in Threads :
        /\ PC(t) = "park"
        /\ Top(t).pendings = 1
        /\ unusedDrop[t]
        /\ clones[t] = 0 /\ armed[t] = 0 /\ refcount[t] = 1
        /\ flips[t] = 0

\* C11: wake or wake_by_ref on a clone after the block_on call that made it
\* has returned is a no-op: the Notifier exists, and the call leaves no
\* pending wake behind, i.e. no step taken while no call is in progress on a
\* thread changes the pending flag of that thread's Notifier.
C11_WakeAfterReturnNoEffect ==
    [][\A t \in Threads :
         (~InCall(t) /\ ~InCall(t)') =>
            /\ unparked'[t] = unparked[t]
            /\ refcount[t] >= 1 => refcount'[t] >= 1]_vars

\* C12: a task that returns Ready on its first poll makes block_on return
\* that value after exactly one poll: while the call is in progress it is in
\* that first poll, and when it has returned the thread has made one poll,
\* has never called thread::park and has never swapped the flag (neither a
\* swap that returned true nor one that returned false and led to park).
C12_ReadyAtOnce ==
    \A t \in Threads :
        /\ (InCall(t) /\ Top(t).n = 0) =>
              /\ Top(t).pc = "polling"
              /\ Top(t).polls = 1 /\ Top(t).pendings = 0
              /\ Top(t).woken = 0 /\ ~Top(t).parked
        /\ (Returned(t) /\ outcome[t].call.n = 0) =>
              /\ outcome[t].val = outcome[t].call.val
              /\ outcome[t].call.polls = 1 /\ outcome[t].call.pendings = 0
              /\ outcome[t].call.woken = 0 /\ ~outcome[t].call.parked

\* C12 witness: a task ready at its first poll has returned "b"; it woke
\* itself during that poll, and the flag it set is still there, unconsumed.
C12_Witness ==
    \E t \in Threads :
        /\ Returned(t)
        /\ outcome[t].call.n = 0 /\ outcome[t].val = "b"
        /\ outcome[t].call.polls = 1
        /\ unparked[t] /\ flips[t] = 1

\* The block_on calls in progress: <<thread, depth of the frame>>.
CallsInProgress ==
    UNION { { <<t, i>> : i \in 1..Len(stack[t]) } : t \in Threads }

\* C13: each block_on call in progress uses exactly one Notifier (the one of
\* its thread, which exists), and no Notifier is used by two calls that are
\* in progress at the same time.
C13_OneNotifierPerCall ==
    /\ \A c \in CallsInProgress : refcount[NotifierOf(c[1])] >= 1
    /\ \A c1, c2 \in CallsInProgress :
          NotifierOf(c1[1]) = NotifierOf(c2[1]) => c1 = c2

\* C13 witness: two calls are in progress at the same time, one per thread,
\* one parked and one in a poll where a nested call has been rejected.
C13_Witness ==
    /\ Cardinality(CallsInProgress) = 2
    /\ PC("t1") = "park" /\ PC("t2") = "polling"
    /\ outcome["t2"].kind = "rejected"
    /\ refcount["t1"] = 1 /\ refcount["t2"] = 1

\* The Wakers of Notifier n that hold a reference of their own: the clones at
\* rest, the clones a background thread is about to wake, and the clones
\* consumed by a wake(self) that has not yet dropped its Arc.
Outstanding(n) == clones[n] + armed[n] + uw[n] + rel[n]

\* C14: the reference count of a Notifier is one (the reference of its
\* thread) plus the number of Waker clones outstanding: clone adds one,
\* drop and wake (at its end) take one away, wake_by_ref changes nothing;
\* so the count of a Notifier in use never reaches zero.
C14_RefcountIsOnePlusClones ==
    \A n \in Threads :
        IF refcount[n] = 0
          THEN Outstanding(n) = 0 /\ ur[n] = 0 /\ ~InCall(n)
          ELSE refcount[n] = 1 + Outstanding(n)

\* C14 witness: a clone at rest, a wake(self) past its unpark and a
\* wake_by_ref before its unpark: count 3, the wake_by_ref not counted.
C14_Witness ==
    \E n \in Threads :
        clones[n] = 1 /\ rel[n] = 1 /\ ur[n] = 1 /\ refcount[n] = 3

\* C15: a step that clones a Waker (one more clone at rest) or drops one
\* (one clone and one reference fewer) leaves the pending flag of every
\* Notifier, the park token of every thread and every poll loop as they
\* were; so the flag changes in wake and wake_by_ref steps only.
C15_CloneDropFrame ==
    [][(\E n \in Threads :
           \/ clones'[n] > clones[n]
           \/ clones'[n] < clones[n] /\ refcount'[n] < refcount[n])
         => UNCHANGED <<unparked, token, stack, flips, unparks>>]_vars

\* C15 witness: with the thread in park, a clone has been dropped and
\* another one made; the flag is false, no token is there, the thread
\* stays in park.
C15_Witness ==
    \E t \in Threads :
        /\ PC(t) = "park"
        /\ unusedDrop[t] /\ clones[t] = 1 /\ refcount[t] = 2
        /\ ~unparked[t] /\ ~token[t]

\* C16: a step that ends a block_on call in progress starts inside a poll
\* that has no Pending left to return, and ends the call either with that
\* poll's Ready value or, for a task that panics, with the panic; the
\* record of the call is the frame as that poll left it, and it does not
\* change while the call stays returned (the task is not polled again).
C16_ExitOnlyByReadyOrPanic ==
    [][\A t \in Threads :
         /\ Len(stack'[t]) < Len(stack[t]) =>
               /\ PC(t) = "polling" /\ Top(t).left = 0
               /\ Top(t).pendings = Top(t).n
               /\ outcome'[t].call = Top(t)
               /\ IF Top(t).panics
                    THEN outcome'[t].kind = "panicked" /\ outcome'[t].val = "none"
                    ELSE outcome'[t].kind = "returned" /\ outcome'[t].val = Top(t).val
         /\ (Returned(t) /\ Returned(t)') => outcome'[t] = outcome[t]]_vars

\* C16 witness: a call whose task returned Pending MaxPending times and was
\* woken through clones at rest each time has returned "b" from its last poll.
C16_Witness ==
    \E t \in Threads :
        /\ Returned(t) /\ outcome[t].val = "b"
        /\ ~outcome[t].call.arms
        /\ outcome[t].call.n = MaxPending /\ outcome[t].call.left = 0
        /\ outcome[t].call.polls = MaxPending + 1

\* C17: a panic of the task during a poll leaves block_on as a panic: a call
\* whose task panics never ends with a value, it ends in the panicking poll
\* (the task's Pending polls plus that one, no poll after it), and a call
\* ends as panicked only when its task panicked.
C17_PanicPropagates ==
    \A t \in Threads :
        /\ (InCall(t) /\ Top(t).panics) => Top(t).polls <= Top(t).n + 1
        /\ outcome[t].call.panics =>
              /\ outcome[t].kind = "panicked" /\ outcome[t].val = "none"
              /\ outcome[t].call.polls = outcome[t].call.n + 1
        /\ outcome[t].kind = "panicked" => outcome[t].call.panics

\* C17 witness: a task returned Pending MaxPending times, the thread parked
\* and was woken, and the task's last poll panicked out of block_on.
C17_Witness ==
    \E t \in Threads :
        /\ Panicked(t)
        /\ outcome[t].call.pendings = MaxPending
        /\ outcome[t].call.parked
        /\ outcome[t].val = "none"

\* C18: the step in which a nested block_on is rejected changes nothing but
\* the record of how that call ended: the reentrancy flag of the thread
\* stays true, the frame and the pending flag of the outer call, the park
\* token and the Arc are as before; so enter() on the state it leaves is
\* refused again.
C18_RejectionChangesNothing ==
    [][\A t \in Threads :
         (InCall(t) /\ outcome'[t] # outcome[t] /\ outcome'[t].kind = "rejected")
            => /\ ENTERED[t] /\ ENTERED'[t]
               /\ ~enter(ENTERED'[t]).ok
               /\ UNCHANGED <<stack, notifyVars, token, arcVars, opVars, unparks>>]_vars

\* C18 witness: the outer call, woken once and in its second poll with a
\* further wake pending, has had a nested call rejected.
C18_Witness ==
    \E t \in Threads :
        /\ PC(t) = "polling" /\ Top(t).polls = 2
        /\ outcome[t].kind = "rejected"
        /\ unparked[t] /\ ENTERED[t]

\* Waker calls in flight, all Notifiers together; an owned clone of n that no
\* wake_by_ref in flight is borrowing.
OpsInFlight == SumOver(uw) + SumOver(ur) + SumOver(rel)
FreeClone(n) == clones[n] > (IF ur[n] > 0 THEN 1 ELSE 0)

\* C19: the four Waker operations never wait. In every reachable state,
\* whatever the owning thread is doing (polling, at its swap, in park, not
\* in a call, returned) and whatever other clones exist and other Waker
\* calls are in flight, a call in flight can take its next step, a thread
\* holding a clone can clone it again, drop it or wake it, and an armed
\* wake can be made (the model's bounds on clones and on calls in flight
\* aside).
C19_WakerOpsNeverWait ==
    \A n \in Threads :
        /\ uw[n] > 0 => ENABLED UnparkWake(n)
        /\ ur[n] > 0 => ENABLED UnparkRef(n)
        /\ rel[n] > 0 => ENABLED ReleaseWake(n)
        /\ armed[n] > 0 => ENABLED WakeArmed(n)
        /\ FreeClone(n) => ENABLED drop_arc_raw(n)
        /\ (clones[n] > 0 /\ SumOver(clones) < MaxClones + 2)
              => ENABLED clone_arc_raw_upto(n, MaxClones + 2)
        /\ (clones[n] > 0 /\ OpsInFlight < MaxOps) => ENABLED wake_by_ref_arc_raw(n)
        /\ (FreeClone(n) /\ OpsInFlight < MaxOps) => ENABLED wake_arc_raw(n)

\* C19 witness: the owning thread has returned from block_on; a wake(self)
\* is still on its way to unpark, and two clones at rest are there side by
\* side, to be cloned, woken or dropped next to it.
C19_Witness ==
    \E n \in Threads :
        /\ Returned(n) /\ outcome[n].call.pendings >= 1
        /\ uw[n] = 1 /\ clones[n] = 2 /\ rel[n] = 0
        /\ SumOver(clones) < MaxClones + 2
        /\ unparked[n]

\* C20: when a reportable TracebackError is dropped with an asynchronous
\* callback registered and no ambient scheduler active, the callback's
\* future is run on the dropping thread by the blocking executor before the
\* drop returns: a drop made on a thread that is not inside a blocking call
\* is not refused, it puts the future into the executor's poll loop.
C20_DropRunsCallback ==
    [][\A t \in Threads :
         (~InCall(t) /\ outcome'[t] # outcome[t])
            => InCall(t)' /\ outcome'[t].kind # "rejected"]_vars

\* The reports a sequence of errors going out of scope is to produce: one for
\* each error that is not a parent, not handled and not the default value,
\* in order, with its contents and is_handled set.
RECURSIVE ExpectedReports(_)
ExpectedReports(es) ==
    IF es = <<>> THEN <<>>
    ELSE (IF Reportable(Head(es)[1])
            THEN <<[Head(es) EXCEPT ![1].is_handled = TRUE]>>
            ELSE <<>>) \o ExpectedReports(Tail(es))

\* C21: dropping an error that is not a parent, not handled and not the
\* default value calls the callback exactly once, with the error's contents
\* marked handled; the drop of what the callback was given, of the default
\* value left in place and of the parents calls it no further time. At every
\* moment the calls made are the first of the expected ones, and all of them
\* once every value has been dropped.
C21_ReportedExactlyOnce ==
    output # NoValue =>
        LET exp == ExpectedReports(input) IN
        /\ Len(output.reports) <= Len(exp)
        /\ \A i \in 1..Len(output.reports) : output.reports[i] = exp[i]
        /\ output.pending = <<>> => output.reports = exp

\* C21 witness: two reportable errors, the first with a parent, have gone
\* out of scope and nothing is left to drop: two calls of the callback.
C21_Witness ==
    /\ output # NoValue
    /\ Len(input) = 2 /\ Len(input[1]) = 2
    /\ input[1][1].message = "a" /\ input[2][1].message = "b"
    /\ output.pending = <<>>
    /\ Len(output.reports) = 2
    /\ output.reports[2][1].is_handled

\* C22: json_to_csv is the inverse of csv_to_json: for a CSV text with a
\* header row, json_to_csv(csv_to_json(c)) returns c, header row and column
\* order included.
C22_RoundTrip ==
    (input \in CsvReaders /\ input.text # <<>> /\ output.csv # NoValue)
        => output.csv = Ok(input.text)

\* The set of a record's fields; the data rows of a text; the last column
\* of a header row that carries the header h.
RangeOf(seq)  == { seq[i] : i \in 1..Len(seq) }
LastColumn(headers, h) ==
    CHOOSE i \in 1..Len(headers) :
        headers[i] = h /\ \A j \in (i + 1)..Len(headers) : headers[j] # h

\* C23 as stated: csv_to_json returns one object per data row, in row order,
\* each mapping every header of the first row to the row's field at the same
\* column; a row with fewer fields than there are headers yields an error.
C23_SameColumn ==
    (input \in CsvReaders /\ input.text # <<>> /\ output.json # NoValue) =>
        LET headers == Head(input.text)
            data    == Tail(input.text)
        IN /\ (\E k \in 1..Len(data) : Len(data[k]) < Len(headers)) => ~output.json.ok
           /\ (\A k \in 1..Len(data) : Len(data[k]) = Len(headers)) =>
                 /\ output.json.ok
                 /\ Len(output.json.val) = Len(data)
                 /\ \A k \in 1..Len(data) :
                       /\ DOMAIN output.json.val[k] = RangeOf(headers)
                       /\ \A i \in 1..Len(headers) :
                             output.json.val[k][headers[i]] = data[k][i]

\* C23, amended: csv_to_json returns one object per data row, in row
\* order, each mapping every header of the first row to the row's field at
\* the last column that carries that header (the same column when the
\* headers are distinct); a row with fewer fields than there are headers
\* yields an error and no array.
C23_LastColumnWins ==
    (input \in CsvReaders /\ input.text # <<>> /\ output.json # NoValue) =>
        LET headers == Head(input.text)
            data    == Tail(input.text)
        IN /\ (\E k \in 1..Len(data) : Len(data[k]) < Len(headers)) => ~output.json.ok
           /\ (\A k \in 1..Len(data) : Len(data[k]) = Len(headers)) =>
                 /\ output.json.ok
                 /\ Len(output.json.val) = Len(data)
                 /\ \A k \in 1..Len(data) :
                       /\ DOMAIN output.json.val[k] = RangeOf(headers)
                       /\ \A h \in RangeOf(headers) :
                             output.json.val[k][h] = data[k][LastColumn(headers, h)]

\* C23 witness: the header row names the same column twice; the object of
\* the first data row holds the field of the second column under that name.
C23_Witness ==
    /\ input \in CsvReaders
    /\ input.text = << <<"a", "a">>, <<"a", "b">>, <<"b", "a">> >>
    /\ output.json # NoValue
    /\ output.json.ok
    /\ Len(output.json.val) = 2
    /\ output.json.val[1]["a"] = "b"

\* C24: generate_schema maps null, boolean, number and string values to
\* {"type": "null" | "boolean" | "number" | "string"}, and an object to
\* {"type": "object", "properties": the schema of each member under its key,
\* "required": every key of the object}, the members' schemas being made in
\* the same way.
C24_ScalarAndObjectSchema ==
    (input \in JsonValues /\ output # NoValue) =>
        /\ input = JNull => output = JObj([type |-> JStr("null")])
        /\ input.t = "Bool" => output = JObj([type |-> JStr("boolean")])
        /\ input.t = "Number" => output = JObj([type |-> JStr("number")])
        /\ input.t = "String" => output = JObj([type |-> JStr("string")])
        /\ input.t = "Object" =>
              /\ DOMAIN output.v = {"type", "properties", "required"}
              /\ output.v.type = JStr("object")
              /\ DOMAIN output.v.properties.v = DOMAIN input.v
              /\ \A k \in DOMAIN input.v :
                    /\ output.v.properties.v[k] = generate_schema(input.v[k])
                    /\ input.v[k].t = "Number" =>
                          output.v.properties.v[k] = JObj([type |-> JStr("number")])
              /\ output.v.required.t = "Array"
              /\ { output.v.required.v[i] : i \in 1..Len(output.v.required.v) }
                    = { JStr(k) : k \in DOMAIN input.v }
              /\ Len(output.v.required.v) = Cardinality(DOMAIN input.v)

\* C24 witness: an object with a number and a nested object of a string.
C24_Witness ==
    /\ input = JObj([a |-> JNum("1"), b |-> JObj([a |-> JStr("a")])])
    /\ output # NoValue
    /\ output.v.properties.v["b"].v.properties.v["a"] = JObj([type |-> JStr("string")])
    /\ output.v.required = JArr(<<JStr("a"), JStr("b")>>)

\* C25: for an array whose elements all have the same schema S,
\* generate_schema returns {"type": "array", "items": S}, whatever the
\* number of elements; for an empty array "items" is the empty object.
C25_UniformArraySchema ==
    (input \in JsonValues /\ output # NoValue /\ input.t = "Array") =>
        IF input.v = <<>>
          THEN output = JObj([type |-> JStr("array"), items |-> JObj(EmptyMap)])
          ELSE (\A i \in 1..Len(input.v) :
                    generate_schema(input.v[i]) = generate_schema(input.v[1]))
                 => output = JObj([type |-> JStr("array"),
                                   items |-> generate_schema(input.v[1])])

\* C25 witness: MaxItems arrays of one number each, not the same number.
C25_Witness ==
    /\ input \in JsonValues /\ output # NoValue
    /\ input.t = "Array" /\ Len(input.v) = MaxItems
    /\ input.v[1] = JArr(<<JNum("1")>>) /\ input.v[MaxItems] = JArr(<<JNum("2")>>)
    /\ output = JObj([type |-> JStr("array"),
                      items |-> JObj([type |-> JStr("array"),
                                      items |-> JObj([type |-> JStr("number")])])])

\* C26: coords_to_vec returns an error, and no coordinate vector, when an
\* innermost element of its input is not a number, and when a coordinate or
\* a point of its input is not an array.
IllFormed(coordinates) ==
    \E c \in 1..Len(coordinates) :
        \/ coordinates[c].t # "Array"
        \/ \E j \in 1..Len(coordinates[c].v) :
              \/ coordinates[c].v[j].t # "Array"
              \/ \E i \in 1..Len(coordinates[c].v[j].v) :
                    coordinates[c].v[j].v[i].t # "Number"

C26_IllFormedIsError ==
    (input \in GeoInputs /\ output # NoValue /\ IllFormed(input)) => ~output.ok

\* C27: wake_by_ref sets the flag before it unparks. So when thread::park()
\* of the owning thread returns by taking the token of such an unpark, the
\* flag is set, and the swap(false) that follows returns true, unless the
\* swaps of the owning thread have already taken every wake whose unpark has
\* been issued.
C27_UnparkFindsFlagSet ==
    [][\A t \in Callers :
          (PC(t) = "park" /\ token[t] /\ ~token'[t])
              => (unparked'[t] \/ Top(t).woken >= unparks[t])]_vars

\* The thread has parked, a wake has set the flag and issued its unpark, park
\* has returned by taking the token, and the swap has not yet been made.
C27_Witness ==
    \E t \in Callers :
        /\ PC(t) = "swap" /\ Top(t).parked /\ Top(t).woken = 0
        /\ unparks[t] = 1 /\ ~token[t] /\ flips[t] = 1
        /\ unparked[t]

\* C28: when thread::park() returns and the flag has not been set, the task
\* is not polled: the return of park leads to the swap and to nothing else,
\* and the swap, finding the flag false, leads back to park; neither step
\* calls the task.
C28_SpuriousReturnParksAgain ==
    [][\A t \in Callers :
          /\ (PC(t) = "park" /\ stack'[t] # stack[t])
                => /\ InCall(t)' /\ Top(t)'.pc = "swap"
                   /\ Top(t)'.polls = Top(t).polls
          /\ (PC(t) = "swap" /\ Top(t).parked /\ ~unparked[t] /\ stack'[t] # stack[t])
                => /\ InCall(t)' /\ Top(t)'.pc = "park"
                   /\ Top(t)'.polls = Top(t).polls]_vars

\* park has returned although no wake has been requested and no unpark
\* issued: the flag is false and the swap is about to be made.
C28_Witness ==
    \E t \in Callers :
        /\ PC(t) = "swap" /\ Top(t).parked
        /\ ~unparked[t] /\ flips[t] = 0 /\ unparks[t] = 0

\* C29: when wake or wake_by_ref has been called during a poll that returns
\* Pending, the flag is set when the poll returns, and the swap that follows
\* returns true: the loop polls again, and thread::park() is not called.
C29_WakeDuringPollRepolls ==
    [][\A t \in Callers :
          /\ (PC(t) = "polling" /\ wakesSince[t] > 0 /\ stack'[t] # stack[t]
                 /\ InCall(t)' /\ Top(t)'.pc = "swap")
                => unparked'[t]
          /\ (PC(t) = "swap" /\ unparked[t] /\ stack'[t] # stack[t])
                => /\ InCall(t)' /\ Top(t)'.pc = "polling"
                   /\ Top(t)'.polls = Top(t).polls + 1
                   /\ Top(t)'.woken = Top(t).woken + 1
                   /\ Top(t)'.parked = Top(t).parked]_vars

\* The task woke itself during its first poll and returned Pending; the swap
\* returned true and the second poll is in progress, the thread never parked.
C29_Witness ==
    \E t \in Callers :
        /\ PC(t) = "polling" /\ Top(t).polls = 2 /\ Top(t).pendings = 1
        /\ Top(t).woken = 1 /\ ~Top(t).parked
        /\ flips[t] = 1 /\ unparks[t] = 1 /\ token[t] /\ ~unparked[t]
        /\ refcount[t] = 1

\* C30: every block_on call made on a thread that is running no call, the
\* first one and each later one, begins its first poll, and begins it with
\* the flag of its Notifier false.
C30_FirstPollFindsFlagFalse ==
    [][\A t \in Callers :
          (PC(t) = "idle" /\ (stack'[t] # stack[t] \/ outcome'[t] # outcome[t]))
              => /\ InCall(t)' /\ Top(t)'.pc = "polling" /\ Top(t)'.polls = 1
                 /\ ~unparked'[t]]_vars

\* C31: wake(self) does what wake_by_ref followed by the drop of the handle
\* does. Its first step consumes the handle and makes the one request_wake
\* of wake_by_ref (flag set, unpark to follow if and only if the flag was
\* false), without touching the count; its unpark is the unpark of
\* wake_by_ref; its last step gives back one reference, as the drop of the
\* handle does, and touches neither the flag nor the token.
RequestWakeEffect(n) ==
    /\ unparked' = [unparked EXCEPT ![n] = TRUE]
    /\ flips' = [flips EXCEPT ![n] = IF unparked[n] THEN @ ELSE @ + 1]
    /\ token' = token /\ refcount' = refcount

UnparkEffect(n) ==
    /\ token' = [token EXCEPT ![n] = TRUE]
    /\ unparks' = [unparks EXCEPT ![n] = @ + 1]
    /\ unparked' = unparked /\ refcount' = refcount

DropEffect(n) ==
    /\ refcount' = [refcount EXCEPT ![n] = @ - 1]
    /\ unparked' = unparked /\ token' = token /\ unparks' = unparks

C31_WakeIsWakeByRefThenDrop ==
    [][\A n \in Threads :
          \* wake(self), up to its swap
          /\ (uw[n] + rel[n] < uw'[n] + rel'[n])
                => /\ RequestWakeEffect(n)
                   /\ clones'[n] + armed'[n] = clones[n] + armed[n] - 1
                   /\ (uw'[n] = uw[n] + 1) <=> ~unparked[n]
          \* wake_by_ref whose swap returned false, up to its swap
          /\ (ur[n] < ur'[n])
                => /\ RequestWakeEffect(n) /\ ~unparked[n]
                   /\ clones' = clones /\ armed' = armed
          \* the unpark of either
          /\ (uw'[n] < uw[n]) => (UnparkEffect(n) /\ rel'[n] = rel[n] + 1)
          /\ (ur'[n] < ur[n]) => UnparkEffect(n)
          \* the end of wake(self), and the drop of a handle
          /\ (rel'[n] < rel[n]) => (DropEffect(n) /\ clones' = clones)
          /\ (clones'[n] < clones[n] /\ uw' = uw /\ rel' = rel)
                => (DropEffect(n) /\ clones'[n] = clones[n] - 1)]_vars

\* The owner is in park, and a handle has been used up on its Notifier after
\* its last swap: by wake(self), or by wake_by_ref and drop. Either way the
\* flag is set, one unpark has been issued, and the count is back to the one
\* reference of the thread-local.
C31_Witness ==
    \E t \in Callers :
        /\ PC(t) = "park" /\ ~Top(t).arms /\ Top(t).woken = 0
        /\ unparked[t] /\ token[t] /\ flips[t] = 1 /\ unparks[t] = 1
        /\ refcount[t] = 1 /\ clones[t] = 0
        /\ uw[t] = 0 /\ ur[t] = 0 /\ rel[t] = 0

\* C32: the flag of a Notifier goes from true to false only in a step of its
\* owning thread's loop, the swap(false) made between two polls; a step of
\* a Waker operation (clone, wake, wake_by_ref, their unpark, drop) never
\* clears it.
C32_OnlyOwnerClearsFlag ==
    [][\A n \in Threads :
          (unparked[n] /\ ~unparked'[n])
              => /\ PC(n) = "swap"
                 /\ InCall(n)' /\ Top(n)'.pc = "polling"
                 /\ Top(n)'.woken = Top(n).woken + 1
                 /\ UNCHANGED <<arcVars, opVars, token, unparks>>]_vars

\* The owner has parked, has been woken, and its swap has taken the wake:
\* the flag is false again and the task is being polled.
C32_Witness ==
    \E t \in Callers :
        /\ PC(t) = "polling" /\ Top(t).parked /\ Top(t).woken = 1
        /\ flips[t] = 1 /\ ~unparked[t]

\* C33: the task of a call is polled by the calling thread only. A poll
\* begins in a step of that thread's block_on or of its loop (the swap that
\* returned true), a step that is no part of any Waker operation; and a
\* step of a Waker operation (a clone, a wake or wake_by_ref up to its swap,
\* its unpark, its end, a drop) changes no call: it begins no poll and ends
\* none.
WakerStep ==
    \/ opVars' # opVars
    \/ clones' # clones
    \/ unparks' # unparks
    \/ \E n \in Threads : armed'[n] < armed[n]
    \/ \E n \in Threads : ~unparked[n] /\ unparked'[n]

PollBegins(t) ==
    /\ InCall(t)'
    /\ \/ Len(stack'[t]) > Len(stack[t])
       \/ Len(stack'[t]) = Len(stack[t]) /\ Top(t)'.polls > Top(t).polls

C33_OnlyCallerPolls ==
    [][/\ WakerStep => (stack' = stack /\ outcome' = outcome /\ ENTERED' = ENTERED)
       /\ \A t \in Threads :
             PollBegins(t) => (PC(t) \in {"idle", "swap"} /\ ~WakerStep)]_vars

\* The background thread the task armed has made its wake and its unpark
\* while the owner was in park; the task has been polled once, by the owner.
C33_Witness ==
    \E t \in Callers :
        /\ PC(t) = "park" /\ Top(t).arms /\ Top(t).polls = 1
        /\ armed[t] = 0 /\ uw[t] = 0 /\ unparks[t] = 1
        /\ unparked[t] /\ token[t]

\* C34: calls on two different threads do not interfere. Whatever is found
\* on a thread is the doing of that thread's own calls and of the wakes made
\* through their Wakers: its guard is set, and a call of it rejected, only
\* once a call of its own has been accepted (which built its Notifier); its
\* flag is set only by a wake counted on its own Notifier, and its token
\* only by an unpark issued for it.
C34_ThreadsDoNotInterfere ==
    \A t \in Threads :
        /\ outcome[t].kind = "rejected" => ENTERED[t]
        /\ ENTERED[t] => refcount[t] >= 1
        /\ unparked[t] => flips[t] >= 1
        /\ token[t] => unparks[t] >= 1
        /\ (flips[t] >= 1 \/ unparks[t] >= 1) => refcount[t] >= 1

\* Both threads have a call in progress; the task of t1 has woken itself
\* and that of t2 has not: the flag and the token of t1 are set, those of t2
\* are not.
C34_Witness ==
    /\ PC("t1") = "polling" /\ PC("t2") = "polling"
    /\ unparked["t1"] /\ token["t1"] /\ unparks["t1"] = 1
    /\ ~unparked["t2"] /\ ~token["t2"] /\ unparks["t2"] = 0

\* The reference CURRENT_THREAD_NOTIFY holds: one from the first call of the
\* thread until the thread ends.
LocalRef(n) ==
    IF ~exited[n] /\ (InCall(n) \/ outcome[n].kind # "none") THEN 1 ELSE 0

\* C35: the count of a Notifier is the reference of the thread-local, while
\* the thread lives, plus one for each Waker clone outstanding: the borrowed
\* Waker of the poll context is not counted and the end of a call gives
\* nothing back. So while a clone exists the count is above zero (the
\* Notifier is not freed), also once the call has returned and once the
\* owning thread has ended.
C35_NotFreedWhileCloneExists ==
    \A n \in Threads :
        /\ refcount[n] = LocalRef(n) + Outstanding(n)
        /\ Outstanding(n) > 0 => refcount[n] > 0

\* The call has returned and the thread has ended; a clone of the Waker is
\* still held elsewhere, and its reference is the only one left.
C35_Witness ==
    \E t \in Callers :
        /\ exited[t] /\ outcome[t].kind = "returned"
        /\ clones[t] = 1 /\ refcount[t] = 1

\* C36: comparing two errors with == does not call the reporting callback,
\* and leaves both operands as they were.
C36_EqHasNoSideEffect ==
    (output # NoValue /\ output.result # "none")
        => (output.reports = <<>> /\ output.operands = input)

\* C37: every error given to with_parent is marked as a parent in the
\* chain, and no drop reports it. When the chain goes out of scope the
\* callback is called at most once: once if the outermost error is
\* reportable (not itself marked handled or parent), and then with the
\* whole chain, the outermost error marked handled and every ancestor in
\* its place.
C37_ChainReportedOnceAsAWhole ==
    output # NoValue =>
        LET chain == output.chain
            whole == [chain EXCEPT ![1].is_handled = TRUE]
        IN /\ \A i \in 2..Len(chain) : chain[i].is_parent /\ ~chain[i].is_default
           /\ \A i \in 1..Len(output.reports) : output.reports[i] = whole
           /\ Len(output.reports) <= 1
           /\ output.reports # <<>> => (~output.live /\ Reportable(chain[1]))
           /\ (~output.live /\ output.pending = <<>> /\ Reportable(chain[1]))
                 => output.reports = <<whole>>

\* A chain of the greatest length, made of errors none of which was marked
\* parent or handled when made, has gone out of scope and every value has
\* been dropped: one call, with the whole chain.
C37_Witness ==
    /\ output # NoValue
    /\ Len(input) = MaxParents + 1
    /\ \A i \in 1..Len(input) : ~input[i].is_parent /\ ~input[i].is_handled
    /\ ~output.live /\ output.pending = <<>>
    /\ Len(output.reports) = 1
    /\ Len(output.reports[1]) = MaxParents + 1
====
